---- MODULE Spec2Model ----
(***************************************************************************)
(* Model of the server communication and attack-polling subsystem of the   *)
(* GGE utility bot.                                                        *)
(*                                                                         *)
(*   ServerComm      src/server_comm.py                                    *)
(*   AttackListener  src/src/gge_utility_bot/bot_services/                 *)
(*                   attack_listener.py  (and src/bot_services/)           *)
(*   data_process    src/data_process.py                                   *)
(*                                                                         *)
(* Every asyncio task is modelled by its position (a pc); one action is    *)
(* the code a task runs between two suspension points.                     *)
(***************************************************************************)
EXTENDS Integers, Sequences, FiniteSets, TLC

\* ---------------------------------------------------------------- bounds
\* the largest atk_id (MID) the server reports
MaxAtkId == 2
\* the largest position of the server's event log
MaxIndex == 1
\* number of send_request calls issued in a run
MaxCalls == 2
\* number of connections that get established in a run
MaxConns == 2
\* capacity kept for one response queue of the pending-call registry
MaxSlotLen == 2
\* the time a caller is prepared to wait for a response, in clock ticks
REQUEST_TIMEOUT == 1
\* number of probe requests one account issues in a run
MaxProbes == 3
\* the longest duration that is rendered, in seconds
MaxSeconds == 3725
\* the longest configuration path, in characters
MaxPathLen == 3
\* the longest list of keys given to a PathDict
MaxKeys == 3
\* the most messages in the history of a configuration channel
MaxMsgs == 3
\* calls of ServerComm.start in a run
MaxStarts == 2
\* _TypeValidator.CACHE_MAX_LEN is 1024; the model keeps a cache this long
CACHE_MAX_LEN == 2

\* ------------------------------------------------------------ ServerComm
VARIABLES
    next_msg_id,        \* ServerComm._next_msg_id
    response_register,  \* ServerComm._response_register: key -> queue
    request_queue,      \* ServerComm._request_queue: set of <<msg_id, msg>>
    getters,            \* tasks suspended in _request_queue.get(), oldest first
    calls,              \* the send_request calls issued so far, in issue order
    connPc,             \* position of the _connect_loop task
    nconn,              \* number of connections established so far
    ws,                 \* state of each connection
    sendPc,             \* position of each connection's _send_msg_loop task
    recvPc,             \* position of each connection's _recv_loop task
    wire,               \* what ws.send has written: <<connection, msg_id>>
    fate                \* what became of the inbound frame read last

\* -------------------------------------------------------- AttackListener
VARIABLES
    started,            \* AttackListener._started
    lpc,                \* position of each account's _listener task
    index,              \* the local `index` of each _listener task
    outstanding,        \* the args of the requests each account is awaiting
    prev_atk_ids,       \* AttackListener._prev_atk_ids
    output_queue,       \* AttackListener._output_queue
    emitted             \* per atk_id, the number of messages pushed for it

listenerVars == <<started, lpc, index, outstanding, prev_atk_ids,
                  output_queue, emitted>>

\* ---------------------------------------------- the record of a run
VARIABLES
    pushed,             \* the envelopes put on _output_queue, in put order
    delivered,          \* the envelopes AttackListener.get returned, in order
    expected,           \* the envelopes the responses polled so far call for
    carried,            \* per account, the index its last good response bore
    cycle,              \* per account, how its latest poll cycle ended
    polled,             \* per account, the atk_ids its polls have decoded
    kept,               \* per account, the atk_ids its polls have kept
    probes,             \* per account, the probe requests issued
    failures,           \* per account, the probes that failed
    tasks,              \* per account, the _listener tasks created
    launches,           \* the calls of AttackListener.start made
    offline             \* the msg_ids enqueued while no connection was open

delivery == <<pushed, delivered, expected>>
seen == <<polled, kept>>
counts == <<probes, failures>>
made == <<tasks, launches, offline>>
history == <<delivery, carried, cycle, seen, counts, made>>

\* -------------------------------------------------------- StatusMonitor
VARIABLES
    gpc,                \* position of the get_status call
    spc,                \* position of each account's _get_status task
    info_sent,          \* per account, the info requests issued
    info_response,      \* per account, what send_request gave its task
    connected,          \* per account, what _get_active_status returned
    completed,          \* the accounts in the order their tasks finished
    status_list         \* what get_status returned

monitorVars == <<gpc, spc, info_sent, info_response, connected, completed,
                 status_list>>

\* ------------------------------------------- functions applied alone
VARIABLES
    input,              \* the arguments of the call made last
    output              \* what that call returned

\* ------------------------------------------------------ ServerComm.start
VARIABLES
    start_flag,         \* ServerComm._start_flag
    loops,              \* the _connect_loop tasks created
    starts              \* the calls of start made

startVars == <<start_flag, loops, starts>>

\* --------------------------------------------------------- _TypeValidator
VARIABLES
    cache_keys,         \* _TypeValidator._cache_keys
    cache_items         \* _TypeValidator._cache_items

cacheVars == <<cache_keys, cache_items>>

extra == <<startVars, cacheVars>>

\* the variables neither ServerComm nor AttackListener writes
aside == <<monitorVars, input, output, extra>>

\* the variables no ServerComm step writes
others == <<fate, listenerVars, history, aside>>

commVars == <<next_msg_id, response_register, request_queue, getters, calls,
              connPc, nconn, ws, sendPc, recvPc, wire>>

Conns == 1..MaxConns

\* the content the server answers request k with (ResponseContentType)
ResponseTo(k) == [response |-> k]

\* frames that json.loads rejects or that lack a field
MalformedFrames == {[bad |-> "not_json"], [bad |-> "no_content"],
                    [bad |-> "no_msg_id"]}

\* well-formed inbound frames; MaxCalls is an id no call of the run gets
WellFormedFrames == {[content |-> ResponseTo(k), msg_id |-> k] : k \in 0..MaxCalls}

Frames == WellFormedFrames \cup MalformedFrames

IsMalformed(frame) == frame \in MalformedFrames

\* the value of a call that has not returned
NoResult == [none |-> TRUE]

\* str(msg_id): the decimal digits of a natural number
RECURSIVE Str(_)
Str(n) == IF n < 10 THEN <<n>> ELSE Str(n \div 10) \o <<n % 10>>

\* ServerComm._get_msg_id
GetMsgIdStuck(n) == [msg_id |-> n, next |-> n]
GetMsgId(n) == [msg_id |-> n, next |-> n + 1]

\* Request.message, the wire text of a request
Message(msg_id) == [msg_id |-> msg_id]

\* self._response_register[key] = asyncio.Queue()
Register(reg, key) ==
    [k \in (DOMAIN reg) \cup {key} |-> IF k = key THEN <<>> ELSE reg[k]]

\* del self._response_register[key]
UnregisterKept(reg, key) == reg
Unregister(reg, key) == [k \in (DOMAIN reg) \ {key} |-> reg[k]]

\* what _process_response puts in a queue: the content of the frame
Item(frame) == frame.content

\* ServerComm._process_response
ProcessResponseAnySlot(reg, frame) ==
    IF IsMalformed(frame) \/ DOMAIN reg = {} THEN reg
    ELSE LET key == CHOOSE k \in DOMAIN reg : TRUE
         IN  [reg EXCEPT ![key] = Append(@, Item(frame))]
ProcessResponseSetDefault(reg, frame) ==
    IF IsMalformed(frame) THEN reg
    ELSE LET key == Str(frame.msg_id)
             r   == IF key \in DOMAIN reg THEN reg ELSE Register(reg, key)
         IN  [r EXCEPT ![key] = Append(@, Item(frame))]
ProcessResponse(reg, frame) ==
    IF IsMalformed(frame) THEN reg
    ELSE LET key == Str(frame.msg_id)
         IN  IF key \notin DOMAIN reg THEN reg
             ELSE [reg EXCEPT ![key] = Append(@, Item(frame))]

\* PriorityQueue.get: the smallest <<msg_id, msg>>
PopLargest(q) == CHOOSE e \in q : \A o \in q : o[1] <= e[1]
PopMin(q) == CHOOSE e \in q : \A o \in q : e[1] <= o[1]

\* _connect_loop: what follows an attempt that ended with `outcome`
AfterAttemptRaise(outcome) == IF outcome = "error" THEN "stopped" ELSE "cooldown"
AfterAttempt(outcome) == "cooldown"

Pending(i) == calls[i].status = "pending"

CommInit ==
    /\ next_msg_id = 0
    /\ response_register = <<>>
    /\ request_queue = {}
    /\ getters = <<>>
    /\ calls = <<>>
    /\ connPc = "connecting"
    /\ nconn = 0
    /\ ws = [n \in Conns |-> "none"]
    /\ sendPc = [n \in Conns |-> "none"]
    /\ recvPc = [n \in Conns |-> "none"]
    /\ wire = <<>>

\* send_request and _send_request up to the await of the response queue
SendRequestCore ==
    /\ Len(calls) < MaxCalls
    /\ LET got    == GetMsgId(next_msg_id)
           msg_id == got.msg_id
           key    == Str(msg_id)
       IN  /\ next_msg_id' = got.next
           /\ response_register' = Register(response_register, key)
           /\ request_queue' = request_queue \cup {<<msg_id, Message(msg_id)>>}
           /\ calls' = Append(calls, [msg_id |-> msg_id, status |-> "pending",
                                      result |-> NoResult, waited |-> 0])
    /\ IF getters # <<>>
       THEN /\ sendPc' = [sendPc EXCEPT ![Head(getters)] = "ready"]
            /\ getters' = Tail(getters)
       ELSE UNCHANGED <<sendPc, getters>>
    /\ UNCHANGED <<connPc, nconn, ws, recvPc, wire>>

SendRequest == SendRequestCore /\ UNCHANGED others

\* _send_request from the response queue's get to the return
Return(i) ==
    /\ Pending(i)
    /\ LET key == Str(calls[i].msg_id)
       IN  /\ key \in DOMAIN response_register
           /\ response_register[key] # <<>>
           /\ calls' = [calls EXCEPT ![i].status = "returned",
                                     ![i].result = Head(response_register[key])]
           /\ response_register' = Unregister(response_register, key)
    /\ UNCHANGED <<next_msg_id, request_queue, getters, connPc, nconn, ws,
                   sendPc, recvPc, wire,
                   others>>

\* time passes while calls await their response (line 222 has no timeout)
Tick ==
    /\ \E i \in DOMAIN calls : Pending(i) /\ calls[i].waited <= REQUEST_TIMEOUT
    /\ calls' = [i \in DOMAIN calls |->
                   IF Pending(i) /\ calls[i].waited <= REQUEST_TIMEOUT
                   THEN [calls[i] EXCEPT !.waited = @ + 1]
                   ELSE calls[i]]
    /\ UNCHANGED <<next_msg_id, response_register, request_queue, getters,
                   connPc, nconn, ws, sendPc, recvPc, wire,
                   others>>

\* _connect_loop / _connect: websockets.connect succeeds, both loops start
ConnectOk ==
    /\ connPc = "connecting"
    /\ nconn < MaxConns
    /\ nconn' = nconn + 1
    /\ ws' = [ws EXCEPT ![nconn + 1] = "open"]
    /\ sendPc' = [sendPc EXCEPT ![nconn + 1] = "ready"]
    /\ recvPc' = [recvPc EXCEPT ![nconn + 1] = "running"]
    /\ connPc' = "active"
    /\ UNCHANGED <<next_msg_id, response_register, request_queue, getters,
                   calls, wire,
                   others>>

\* _connect_loop: websockets.connect raises, the exception is logged
ConnectFail ==
    /\ connPc = "connecting"
    /\ connPc' = AfterAttempt("error")
    /\ UNCHANGED <<next_msg_id, response_register, request_queue, getters,
                   calls, nconn, ws, sendPc, recvPc, wire,
                   others>>

\* the connection closes; the `async for` of its _recv_loop ends
Drop(n) ==
    /\ ws[n] = "open"
    /\ ws' = [ws EXCEPT ![n] = "closed"]
    /\ recvPc' = [recvPc EXCEPT ![n] = "done"]
    /\ UNCHANGED <<next_msg_id, response_register, request_queue, getters,
                   calls, connPc, nconn, sendPc, wire,
                   others>>

\* _connect: asyncio.wait(FIRST_COMPLETED) returns, the connection is left
ConnectReturn ==
    /\ connPc = "active"
    /\ sendPc[nconn] = "done" \/ recvPc[nconn] = "done"
    /\ ws' = [ws EXCEPT ![nconn] = "closed"]
    /\ connPc' = AfterAttempt("closed")
    /\ UNCHANGED <<next_msg_id, response_register, request_queue, getters,
                   calls, nconn, sendPc, recvPc, wire,
                   others>>

\* _connect_loop: asyncio.sleep(RECONNECT_COOLDOWN) is over
Cooldown ==
    /\ connPc = "cooldown"
    /\ connPc' = "connecting"
    /\ UNCHANGED <<next_msg_id, response_register, request_queue, getters,
                   calls, nconn, ws, sendPc, recvPc, wire,
                   others>>

\* _send_msg_loop: _request_queue.get() finds the queue empty and suspends
SendLoopWait(n) ==
    /\ sendPc[n] = "ready"
    /\ request_queue = {}
    /\ sendPc' = [sendPc EXCEPT ![n] = "waiting"]
    /\ getters' = Append(getters, n)
    /\ UNCHANGED <<next_msg_id, response_register, request_queue, calls,
                   connPc, nconn, ws, recvPc, wire,
                   others>>

\* _send_msg_loop writing the next request and leaving it in the queue
SendLoopSendKeeps(n) ==
    /\ sendPc[n] = "ready"
    /\ request_queue # {}
    /\ ws[n] = "open"
    /\ LET e == PopMin(request_queue)
       IN  wire' = Append(wire, <<n, e[1]>>)
    /\ sendPc' = [sendPc EXCEPT ![n] = "ready"]
    /\ UNCHANGED <<next_msg_id, response_register, request_queue, getters,
                   calls, connPc, nconn, ws, recvPc,
                   others>>

\* _send_msg_loop: takes the next request and ws.send writes it
SendLoopSend(n) ==
    /\ sendPc[n] = "ready"
    /\ request_queue # {}
    /\ ws[n] = "open"
    /\ LET e == PopMin(request_queue)
       IN  /\ request_queue' = request_queue \ {e}
           /\ wire' = Append(wire, <<n, e[1]>>)
    /\ sendPc' = [sendPc EXCEPT ![n] = "ready"]
    /\ UNCHANGED <<next_msg_id, response_register, getters, calls, connPc,
                   nconn, ws, recvPc,
                   others>>

\* _send_msg_loop: takes the next request, ws.send raises ConnectionClosed
SendLoopClosed(n) ==
    /\ sendPc[n] = "ready"
    /\ request_queue # {}
    /\ ws[n] = "closed"
    /\ LET e == PopMin(request_queue)
       IN  /\ request_queue' = request_queue \ {e}
    /\ sendPc' = [sendPc EXCEPT ![n] = "done"]
    /\ UNCHANGED <<next_msg_id, response_register, getters, calls, connPc,
                   nconn, ws, recvPc, wire,
                   others>>

\* the frame carries the id of a call that has returned
Resolved(frame) ==
    /\ ~IsMalformed(frame)
    /\ \E i \in DOMAIN calls : /\ calls[i].msg_id = frame.msg_id
                               /\ calls[i].status = "returned"

\* asyncio.Queue() is unbounded; the model keeps MaxSlotLen items of a queue
SlotHasRoom(frame) ==
    IF IsMalformed(frame) THEN TRUE
    ELSE IF Str(frame.msg_id) \notin DOMAIN response_register THEN TRUE
    ELSE Len(response_register[Str(frame.msg_id)]) < MaxSlotLen

\* what _process_response does with a frame: the branch it takes
Fate(frame) ==
    IF IsMalformed(frame) THEN "malformed"
    ELSE IF Str(frame.msg_id) \in DOMAIN response_register THEN "delivered"
    ELSE IF Resolved(frame) THEN "resolved"
    ELSE "unknown"

\* _recv_loop with a _process_response that lets the exception of a frame
\* it cannot read out: the loop logs it and ends
RecvCoreRaise(n, frame) ==
    /\ ws[n] = "open"
    /\ recvPc[n] = "running"
    /\ SlotHasRoom(frame)
    /\ response_register' = ProcessResponse(response_register, frame)
    /\ recvPc' = IF IsMalformed(frame) THEN [recvPc EXCEPT ![n] = "done"]
                 ELSE recvPc
    /\ UNCHANGED <<next_msg_id, request_queue, getters, calls, connPc, nconn,
                   ws, sendPc, wire>>

\* _recv_loop: one inbound frame goes through _process_response
RecvCore(n, frame) ==
    /\ ws[n] = "open"
    /\ recvPc[n] = "running"
    /\ SlotHasRoom(frame)
    /\ response_register' = ProcessResponse(response_register, frame)
    /\ UNCHANGED <<next_msg_id, request_queue, getters, calls, connPc, nconn,
                   ws, sendPc, recvPc, wire>>

RecvFrame(n, frame) == RecvCore(n, frame) /\ UNCHANGED others

\* the same step, with the branch taken written down
RecvFrameLogged(n, frame) ==
    /\ RecvCore(n, frame)
    /\ fate' = Fate(frame)
    /\ UNCHANGED <<listenerVars, history, aside>>


\* -------------------------------------------------------- AttackListener
\* the absence value (None)
Absent == [absent |-> TRUE]

AtkIds == 1..MaxAtkId

\* AttackListener.PLAYER_CONFIGS
PLAYER_CONFIGS ==
    <<[username |-> "u1", server |-> "s1", visibility |-> <<10, 11>>,
       enabled |-> TRUE],
      [username |-> "u2", server |-> "s1", visibility |-> <<20>>,
       enabled |-> TRUE],
      [username |-> "u3", server |-> "s2", visibility |-> <<30>>,
       enabled |-> FALSE]>>

Accounts == DOMAIN PLAYER_CONFIGS

\* the entries of the "M" list of a raw message: one that is no threat
\* (neither GS nor GA), one that lacks a required field, and attacks
Entries ==
    {[GS |-> FALSE, GA |-> FALSE, M |-> [MID |-> 1, TA |-> 1]],
     [GS |-> TRUE, GA |-> FALSE, M |-> [missing |-> TRUE]],
     [GS |-> FALSE, GA |-> TRUE, M |-> [MID |-> 1, TA |-> 1]]}
    \cup {[GS |-> TRUE, GA |-> FALSE, M |-> [MID |-> i, TA |-> i]] : i \in AtkIds}

\* a raw message json.loads or the field lookup of _deserialize rejects
Garbage == [garbage |-> TRUE]

ShortMsgs == {Garbage, [M |-> <<>>]} \cup {[M |-> <<e>>] : e \in Entries}

RawMsgs == ShortMsgs \cup {[M |-> <<e1, e2>>] : e1, e2 \in Entries}

MsgLists ==
    {<<>>} \cup {<<m>> : m \in RawMsgs} \cup {<<m1, m2>> : m1, m2 \in ShortMsgs}

\* payloads of another shape than [list, index]
OddPayloads ==
    {[arr |-> <<[list |-> <<>>]>>],
     [arr |-> <<[list |-> <<>>], [str |-> "1"]>>],
     [arr |-> <<[str |-> "x"], [int |-> 1]>>],
     [arr |-> <<[list |-> <<[int |-> 1]>>], [int |-> 1]>>],
     [int |-> 1]}

\* the payloads of a response to a poll
Payloads ==
    {[arr |-> <<[list |-> l], [int |-> k]>>] : l \in MsgLists, k \in 0..MaxIndex}
    \cup OddPayloads

\* the payloads of a response to a probe (start_index 0, no type filter)
ProbePayloads ==
    {[arr |-> <<[list |-> <<>>], [int |-> k]>>] : k \in 0..MaxIndex}
    \cup OddPayloads

\* what send_request gives a listener
Responses == {Absent, [error |-> "x"]} \cup {[response |-> p] : p \in Payloads}

ProbeResponses ==
    {Absent, [error |-> "x"]} \cup {[response |-> p] : p \in ProbePayloads}

\* _unpack_atk_data taking only an entry with GS for a threat
UnpackAtkDataNeedsGS(e) ==
    IF ~e.GS THEN [skip |-> "not_a_threat"]
    ELSE IF ~({"MID", "TA"} \subseteq DOMAIN e.M) THEN [skip |-> "raised"]
    ELSE [atk_id |-> e.M.MID, target_name |-> e.M.TA, est_count |-> 1]

\* data_process.AttackListener._unpack_atk_data
UnpackAtkData(e) ==
    IF ~(e.GS \/ e.GA) THEN [skip |-> "not_a_threat"]
    ELSE IF ~({"MID", "TA"} \subseteq DOMAIN e.M) THEN [skip |-> "raised"]
    ELSE [atk_id |-> e.M.MID, target_name |-> e.M.TA,
          est_count |-> IF e.GS THEN 1 ELSE -1]

\* _deserialize giving up at the first entry that raises
RECURSIVE DeserializeEntriesAbort(_)
DeserializeEntriesAbort(es) ==
    IF es = <<>> THEN <<>>
    ELSE LET unpacked == UnpackAtkData(Head(es))
         IN  IF "skip" \in DOMAIN unpacked
             THEN IF unpacked.skip = "raised" THEN <<>>
                  ELSE DeserializeEntriesAbort(Tail(es))
             ELSE <<unpacked>> \o DeserializeEntriesAbort(Tail(es))

\* data_process.AttackListener._deserialize: the records of the entries
RECURSIVE DeserializeEntries(_)
DeserializeEntries(es) ==
    IF es = <<>> THEN <<>>
    ELSE LET unpacked == UnpackAtkData(Head(es))
         IN  IF "skip" \in DOMAIN unpacked THEN DeserializeEntries(Tail(es))
             ELSE <<unpacked>> \o DeserializeEntries(Tail(es))

\* data_process.AttackListener.deserialize
Deserialize(msg) ==
    IF msg = Garbage THEN Absent ELSE [atks |-> DeserializeEntries(msg.M)]

\* data_process.AttackListener.serialize
Serialize(atk) ==
    IF atk.est_count # -1
    THEN <<"Incoming attack at", atk.target_name, "with approx.", atk.est_count>>
    ELSE <<"Incoming attack at", atk.target_name>>

\* the duplicate test of _encode_msg
IsNewForgetful(prev, atk_id) == TRUE
IsNew(prev, atk_id) == atk_id \notin prev

\* AttackListener._encode_msg over the records of one raw message:
\* the messages kept, their atk_ids and the seen set afterwards
RECURSIVE EncodeRecords(_, _)
EncodeRecords(prev, atks) ==
    IF atks = <<>> THEN [msgs |-> <<>>, ids |-> <<>>, prev |-> prev]
    ELSE LET atk == Head(atks)
         IN  IF IsNew(prev, atk.atk_id)
             THEN LET rest == EncodeRecords(prev \cup {atk.atk_id}, Tail(atks))
                  IN  [msgs |-> <<Serialize(atk)>> \o rest.msgs,
                       ids |-> <<atk.atk_id>> \o rest.ids,
                       prev |-> rest.prev]
             ELSE EncodeRecords(prev, Tail(atks))

\* AttackListener._encode_msg
EncodeMsg(prev, msg) ==
    LET deserialized == Deserialize(msg)
    IN  IF deserialized = Absent
        THEN [msgs |-> <<>>, ids |-> <<>>, prev |-> prev]
        ELSE EncodeRecords(prev, deserialized.atks)

\* _listener, lines 112-114: atk_msgs over the raw messages of a response
RECURSIVE EncodeAll(_, _)
EncodeAll(prev, msg_list) ==
    IF msg_list = <<>> THEN [msgs |-> <<>>, ids |-> <<>>, prev |-> prev]
    ELSE LET first == EncodeMsg(prev, Head(msg_list))
             rest  == EncodeAll(first.prev, Tail(msg_list))
         IN  [msgs |-> first.msgs \o rest.msgs, ids |-> first.ids \o rest.ids,
              prev |-> rest.prev]

\* utils.validate_type(tuple(payload), tuple[list[str], int])
ValidateType(p) ==
    /\ Len(p.arr) = 2
    /\ "list" \in DOMAIN p.arr[1]
    /\ \A i \in DOMAIN p.arr[1].list : "int" \notin DOMAIN p.arr[1].list[i]
    /\ "int" \in DOMAIN p.arr[2]

\* _unpack_response taking a missing or error response for an empty batch
UnpackResponseLax(response) ==
    IF response = Absent THEN [msg_list |-> <<>>, index |-> 0]
    ELSE IF "error" \in DOMAIN response THEN [msg_list |-> <<>>, index |-> 0]
    ELSE IF "arr" \notin DOMAIN response.response THEN Absent
    ELSE IF ~ValidateType(response.response) THEN Absent
    ELSE [msg_list |-> response.response.arr[1].list,
          index |-> response.response.arr[2].int]

\* _unpack_response taking a payload of another shape for an empty batch
\* at position 0
UnpackResponseEmpty(response) ==
    IF response = Absent THEN Absent
    ELSE IF "error" \in DOMAIN response THEN Absent
    ELSE IF "arr" \notin DOMAIN response.response
         THEN [msg_list |-> <<>>, index |-> 0]
    ELSE IF ~ValidateType(response.response)
         THEN [msg_list |-> <<>>, index |-> 0]
    ELSE [msg_list |-> response.response.arr[1].list,
          index |-> response.response.arr[2].int]

\* AttackListener._unpack_response
UnpackResponse(response) ==
    IF response = Absent THEN Absent
    ELSE IF "error" \in DOMAIN response THEN Absent
    ELSE IF "arr" \notin DOMAIN response.response THEN Absent
    ELSE IF ~ValidateType(response.response) THEN Absent
    ELSE [msg_list |-> response.response.arr[1].list,
          index |-> response.response.arr[2].int]

\* _request_current_index taking an error response for position 0
RequestCurrentIndexLax(response) ==
    IF response = Absent THEN Absent
    ELSE IF "error" \in DOMAIN response THEN [index |-> 0]
    ELSE IF "arr" \notin DOMAIN response.response THEN Absent
    ELSE IF Len(response.response.arr) < 2 THEN Absent
    ELSE IF "int" \notin DOMAIN response.response.arr[2] THEN Absent
    ELSE [index |-> response.response.arr[2].int]

\* AttackListener._request_current_index
RequestCurrentIndex(response) ==
    IF response = Absent THEN Absent
    ELSE IF "error" \in DOMAIN response THEN Absent
    ELSE IF "arr" \notin DOMAIN response.response THEN Absent
    ELSE IF Len(response.response.arr) < 2 THEN Absent
    ELSE IF "int" \notin DOMAIN response.response.arr[2] THEN Absent
    ELSE [index |-> response.response.arr[2].int]

\* the routing info _dispatch_atk_msgs builds
RoutingInfo(a) ==
    [username |-> PLAYER_CONFIGS[a].username, server |-> PLAYER_CONFIGS[a].server,
     routes |-> PLAYER_CONFIGS[a].visibility]

\* _dispatch_atk_msgs putting the envelope ahead of the waiting ones
DispatchAtFront(queue, a, atk_msgs) ==
    IF atk_msgs = <<>> THEN queue
    ELSE <<<<RoutingInfo(a), atk_msgs>>>> \o queue

\* _dispatch_atk_msgs without its test for an empty list
DispatchAlways(queue, a, atk_msgs) ==
    Append(queue, <<RoutingInfo(a), atk_msgs>>)

\* AttackListener._dispatch_atk_msgs
DispatchAtkMsgs(queue, a, atk_msgs) ==
    IF atk_msgs = <<>> THEN queue
    ELSE Append(queue, <<RoutingInfo(a), atk_msgs>>)

\* the number of times id occurs in ids
RECURSIVE Count(_, _)
Count(ids, id) ==
    IF ids = <<>> THEN 0
    ELSE (IF Head(ids) = id THEN 1 ELSE 0) + Count(Tail(ids), id)

ListenerInit ==
    /\ started = FALSE
    /\ lpc = [a \in Accounts |-> "none"]
    /\ index = [a \in Accounts |-> Absent]
    /\ outstanding = [a \in Accounts |-> <<>>]
    /\ prev_atk_ids = {}
    /\ output_queue = <<>>
    /\ emitted = [i \in AtkIds |-> 0]

\* nothing has been polled, put or delivered yet
HistoryInit ==
    /\ pushed = <<>>
    /\ delivered = <<>>
    /\ expected = <<>>
    /\ carried = [a \in Accounts |-> -1]
    /\ cycle = [a \in Accounts |-> "none"]
    /\ polled = [a \in Accounts |-> {}]
    /\ kept = [a \in Accounts |-> {}]
    /\ probes = [a \in Accounts |-> 0]
    /\ failures = [a \in Accounts |-> 0]
    /\ tasks = [a \in Accounts |-> 0]
    /\ launches = 0
    /\ offline = {}

ProbeArgs == [start_index |-> 0, msg_type |-> ""]
PollArgs(i) == [start_index |-> i, msg_type |-> "gam"]

\* AttackListener.start without its _started test
StartStepUnguarded ==
    /\ lpc' = [a \in Accounts |->
                 IF PLAYER_CONFIGS[a].enabled THEN "probe" ELSE lpc[a]]
    /\ outstanding' = [a \in Accounts |->
                 IF PLAYER_CONFIGS[a].enabled
                 THEN Append(outstanding[a], ProbeArgs)
                 ELSE outstanding[a]]
    /\ started' = TRUE
    /\ UNCHANGED <<index, prev_atk_ids, output_queue, emitted, commVars, fate, aside>>

\* AttackListener.start and _setup_listener: one task per enabled account,
\* each running up to its first send_request
StartStep ==
    /\ IF started THEN UNCHANGED <<lpc, outstanding>>
       ELSE /\ lpc' = [a \in Accounts |->
                         IF PLAYER_CONFIGS[a].enabled THEN "probe" ELSE "none"]
            /\ outstanding' = [a \in Accounts |->
                         IF PLAYER_CONFIGS[a].enabled
                         THEN Append(outstanding[a], ProbeArgs)
                         ELSE outstanding[a]]
    /\ started' = TRUE
    /\ UNCHANGED <<index, prev_atk_ids, output_queue, emitted, commVars, fate, aside>>

\* _listener falling back to position 0 and polling at once when its probe
\* fails
ProbeStepNoRetry(a, response) ==
    /\ lpc[a] = "probe"
    /\ LET got_index == RequestCurrentIndex(response)
       IN  IF got_index = Absent
           THEN /\ lpc' = [lpc EXCEPT ![a] = "poll"]
                /\ index' = [index EXCEPT ![a] = 0]
                /\ outstanding' = [outstanding EXCEPT ![a] = <<PollArgs(0)>>]
           ELSE /\ lpc' = [lpc EXCEPT ![a] = "poll_sleep"]
                /\ index' = [index EXCEPT ![a] = got_index.index]
                /\ outstanding' = [outstanding EXCEPT ![a] = Tail(@)]
    /\ UNCHANGED <<started, prev_atk_ids, output_queue, emitted, commVars, fate, aside>>

\* _get_current_index: the probe's send_request returns `response`
ProbeStep(a, response) ==
    /\ lpc[a] = "probe"
    /\ LET got_index == RequestCurrentIndex(response)
       IN  IF got_index = Absent
           THEN /\ lpc' = [lpc EXCEPT ![a] = "probe_sleep"]
                /\ UNCHANGED index
           ELSE /\ lpc' = [lpc EXCEPT ![a] = "poll_sleep"]
                /\ index' = [index EXCEPT ![a] = got_index.index]
    /\ outstanding' = [outstanding EXCEPT ![a] = Tail(@)]
    /\ UNCHANGED <<started, prev_atk_ids, output_queue, emitted, commVars, fate, aside>>

\* _get_current_index: the cooldown after a failed probe ends, next probe
ProbeSleepStep(a) ==
    /\ lpc[a] = "probe_sleep"
    /\ lpc' = [lpc EXCEPT ![a] = "probe"]
    /\ outstanding' = [outstanding EXCEPT ![a] = Append(@, ProbeArgs)]
    /\ UNCHANGED <<started, index, prev_atk_ids, output_queue, emitted,
                   commVars, fate, aside>>

\* _listener: the cooldown ends, the poll's send_request is issued
PollSleepStep(a) ==
    /\ lpc[a] = "poll_sleep"
    /\ lpc' = [lpc EXCEPT ![a] = "poll"]
    /\ outstanding' = [outstanding EXCEPT ![a] = Append(@, PollArgs(index[a]))]
    /\ UNCHANGED <<started, index, prev_atk_ids, output_queue, emitted,
                   commVars, fate, aside>>

\* _listener taking the new index only from a response it kept messages of
PollStepLazy(a, response) ==
    /\ lpc[a] = "poll"
    /\ lpc' = [lpc EXCEPT ![a] = "poll_sleep"]
    /\ outstanding' = [outstanding EXCEPT ![a] = Tail(@)]
    /\ \E unpacked \in {UnpackResponse(response)} :
          IF unpacked = Absent
          THEN UNCHANGED <<index, prev_atk_ids, output_queue, emitted>>
          ELSE \E enc \in {EncodeAll(prev_atk_ids, unpacked.msg_list)} :
                  /\ index' = IF enc.msgs = <<>> THEN index
                              ELSE [index EXCEPT ![a] = unpacked.index]
                  /\ prev_atk_ids' = enc.prev
                  /\ output_queue' = DispatchAtkMsgs(output_queue, a, enc.msgs)
                  /\ emitted' = [i \in AtkIds |->
                                    emitted[i] + Count(enc.ids, i)]
    /\ UNCHANGED <<started, commVars, fate, aside>>

\* _listener: the poll's send_request returns `response`; lines 105-121
PollStep(a, response) ==
    /\ lpc[a] = "poll"
    /\ lpc' = [lpc EXCEPT ![a] = "poll_sleep"]
    /\ outstanding' = [outstanding EXCEPT ![a] = Tail(@)]
    /\ \E unpacked \in {UnpackResponse(response)} :
          IF unpacked = Absent
          THEN UNCHANGED <<index, prev_atk_ids, output_queue, emitted>>
          ELSE \E enc \in {EncodeAll(prev_atk_ids, unpacked.msg_list)} :
                  /\ index' = [index EXCEPT ![a] = unpacked.index]
                  /\ prev_atk_ids' = enc.prev
                  /\ output_queue' = DispatchAtkMsgs(output_queue, a, enc.msgs)
                  /\ emitted' = [i \in AtkIds |->
                                    emitted[i] + Count(enc.ids, i)]
    /\ UNCHANGED <<started, commVars, fate, aside>>

\* asyncio.Queue.get taking the newest item instead of the oldest
QueueGetNewest(queue) ==
    [item |-> queue[Len(queue)], rest |-> SubSeq(queue, 1, Len(queue) - 1)]

\* asyncio.Queue.get on a queue that holds an item: the oldest one
QueueGet(queue) == [item |-> Head(queue), rest |-> Tail(queue)]

\* AttackListener.get
GetStep ==
    /\ output_queue # <<>>
    /\ output_queue' = QueueGet(output_queue).rest
    /\ UNCHANGED <<started, lpc, index, outstanding, prev_atk_ids, emitted,
                   commVars, fate, aside>>

Start == StartStep /\ UNCHANGED history
ProbeDone(a, response) == ProbeStep(a, response) /\ UNCHANGED history
ProbeSleep(a) == ProbeSleepStep(a) /\ UNCHANGED history
PollSleep(a) == PollSleepStep(a) /\ UNCHANGED history
PollDone(a, response) == PollStep(a, response) /\ UNCHANGED history
Get == GetStep /\ UNCHANGED history

\* the index a response carries: the integer in second place of its payload
CarriedIndex(response) ==
    IF response = Absent THEN Absent
    ELSE IF "response" \notin DOMAIN response THEN Absent
    ELSE IF "arr" \notin DOMAIN response.response THEN Absent
    ELSE IF Len(response.response.arr) < 2 THEN Absent
    ELSE IF "int" \notin DOMAIN response.response.arr[2] THEN Absent
    ELSE [index |-> response.response.arr[2].int]

\* a successful poll response: a payload [list of raw messages, index]
GoodPoll(response) ==
    /\ CarriedIndex(response) # Absent
    /\ Len(response.response.arr) = 2
    /\ "list" \in DOMAIN response.response.arr[1]
    /\ \A i \in DOMAIN response.response.arr[1].list :
           "int" \notin DOMAIN response.response.arr[1].list[i]

\* the attack records of the raw messages of a response, in their order
RECURSIVE Records(_)
Records(msg_list) ==
    IF msg_list = <<>> THEN <<>>
    ELSE LET d == Deserialize(Head(msg_list))
         IN  (IF d = Absent THEN <<>> ELSE d.atks) \o Records(Tail(msg_list))

\* the places of the records whose atk_id is neither in prev nor borne by
\* an earlier record
FirstNew(prev, recs) ==
    {p \in DOMAIN recs :
        /\ recs[p].atk_id \notin prev
        /\ \A q \in 1..(p - 1) : recs[q].atk_id # recs[p].atk_id}

RECURSIVE Picked(_, _, _)
Picked(recs, ps, p) ==
    IF p > Len(recs) THEN <<>>
    ELSE (IF p \in ps THEN <<Serialize(recs[p])>> ELSE <<>>)
         \o Picked(recs, ps, p + 1)

\* the messages a successful response yields, given the ids seen before it
KeptMessages(prev, response) ==
    LET recs == Records(response.response.arr[1].list)
    IN  Picked(recs, FirstNew(prev, recs), 1)

\* the atk_ids a successful response decodes to
DecodedIds(response) ==
    LET recs == Records(response.response.arr[1].list)
    IN  {recs[p].atk_id : p \in DOMAIN recs}

\* the envelope that carries msgs for account a
ExpectedEnvelope(a, msgs) ==
    <<[username |-> PLAYER_CONFIGS[a].username,
       server |-> PLAYER_CONFIGS[a].server,
       routes |-> PLAYER_CONFIGS[a].visibility], msgs>>

\* the steps of the listeners, with the record of the run kept
ProbeDoneLogged(a, response) ==
    /\ ProbeStep(a, response)
    /\ carried' = IF CarriedIndex(response) = Absent THEN carried
                  ELSE [carried EXCEPT ![a] = CarriedIndex(response).index]
    /\ UNCHANGED <<delivery, cycle, seen, counts, made>>

PollSleepLogged(a) ==
    /\ PollSleepStep(a)
    /\ cycle' = [cycle EXCEPT ![a] = "none"]
    /\ UNCHANGED <<delivery, carried, seen, counts, made>>

PollDoneLogged(a, response) ==
    /\ PollStep(a, response)
    /\ pushed' = pushed \o SubSeq(output_queue', Len(output_queue) + 1,
                                  Len(output_queue'))
    /\ IF GoodPoll(response)
       THEN /\ carried' = [carried EXCEPT ![a] = CarriedIndex(response).index]
            /\ cycle' = [cycle EXCEPT ![a] = "done"]
            /\ \E msgs \in {KeptMessages(prev_atk_ids, response)} :
                  expected' = IF msgs = <<>> THEN expected
                              ELSE Append(expected, ExpectedEnvelope(a, msgs))
       ELSE /\ cycle' = [cycle EXCEPT ![a] =
                           IF "response" \in DOMAIN response THEN "odd"
                           ELSE "skipped"]
            /\ UNCHANGED <<carried, expected>>
    /\ UNCHANGED <<delivered, seen, counts, made>>

GetLogged ==
    /\ GetStep
    /\ delivered' = Append(delivered, QueueGet(output_queue).item)
    /\ UNCHANGED <<pushed, expected, carried, cycle, seen, counts, made>>

HistoryNext ==
    \/ Start
    \/ \E a \in Accounts, response \in ProbeResponses :
          ProbeDoneLogged(a, response)
    \/ \E a \in Accounts : ProbeSleep(a)
    \/ \E a \in Accounts : PollSleepLogged(a)
    \/ \E a \in Accounts, response \in Responses : PollDoneLogged(a, response)
    \/ GetLogged

\* the poll step, with the ids each account decoded and kept written down
PollDoneSeen(a, response) ==
    /\ PollStep(a, response)
    /\ polled' = IF GoodPoll(response)
                 THEN [polled EXCEPT ![a] = @ \cup DecodedIds(response)]
                 ELSE polled
    /\ kept' = [kept EXCEPT
                  ![a] = @ \cup {i \in AtkIds : emitted'[i] > emitted[i]}]
    /\ UNCHANGED <<delivery, carried, cycle, counts, made>>

SeenNext ==
    \/ Start
    \/ \E a \in Accounts, response \in ProbeResponses : ProbeDone(a, response)
    \/ \E a \in Accounts : ProbeSleep(a)
    \/ \E a \in Accounts : PollSleep(a)
    \/ \E a \in Accounts, response \in Responses : PollDoneSeen(a, response)
    \/ Get

\* cursor acquisition alone, with its probe requests and failures counted
StartCounted ==
    /\ StartStep
    /\ probes' = [a \in Accounts |->
                    probes[a] + Len(outstanding'[a]) - Len(outstanding[a])]
    /\ UNCHANGED <<delivery, carried, cycle, seen, failures, made>>

ProbeDoneCounted(a, response) ==
    /\ ProbeStep(a, response)
    /\ IF CarriedIndex(response) = Absent
       THEN /\ failures' = [failures EXCEPT ![a] = @ + 1]
            /\ UNCHANGED carried
       ELSE /\ carried' = [carried EXCEPT ![a] = CarriedIndex(response).index]
            /\ UNCHANGED failures
    /\ UNCHANGED <<delivery, cycle, seen, probes, made>>

ProbeSleepCounted(a) ==
    /\ probes[a] < MaxProbes
    /\ ProbeSleepStep(a)
    /\ probes' = [probes EXCEPT ![a] = @ + 1]
    /\ UNCHANGED <<delivery, carried, cycle, seen, failures, made>>

ProbeNext ==
    \/ StartCounted
    \/ \E a \in Accounts, response \in ProbeResponses :
          ProbeDoneCounted(a, response)
    \/ \E a \in Accounts : ProbeSleepCounted(a)

ListenerNext ==
    \/ Start
    \/ \E a \in Accounts, response \in ProbeResponses : ProbeDone(a, response)
    \/ \E a \in Accounts : ProbeSleep(a)
    \/ \E a \in Accounts : PollSleep(a)
    \/ \E a \in Accounts, response \in Responses : PollDone(a, response)
    \/ Get

\* start, with the tasks it creates counted: a task is created with every
\* first request that appears for an account
StartTasked ==
    /\ launches < MaxStarts
    /\ StartStep
    /\ launches' = launches + 1
    /\ tasks' = [a \in Accounts |->
                   tasks[a] + Len(outstanding'[a]) - Len(outstanding[a])]
    /\ UNCHANGED <<delivery, carried, cycle, seen, counts, offline>>

\* the responses to a poll that carry at most one short raw message
ShortResponses ==
    ProbeResponses
    \cup {[response |-> [arr |-> <<[list |-> <<m>>], [int |-> k]>>]] :
              m \in ShortMsgs, k \in 0..MaxIndex}

\* the listeners, with start called any number of times and the polls
\* answered with those responses
TaskNext ==
    \/ StartTasked
    \/ \E a \in Accounts, response \in ProbeResponses : ProbeDone(a, response)
    \/ \E a \in Accounts : ProbeSleep(a)
    \/ \E a \in Accounts : PollSleep(a)
    \/ \E a \in Accounts, response \in ShortResponses : PollDone(a, response)
    \/ Get

\* no call has been made
NoCall == [none |-> TRUE]

\* --------------------------------------------------------- StatusMonitor
\* what a server may put under "response" when asked for "connected"
InfoValues ==
    {[bool |-> TRUE], [bool |-> FALSE], [int |-> 1], [int |-> 0],
     [str |-> "true"], [null |-> TRUE]}

\* what send_request gives _get_active_status
InfoResponses ==
    {Absent, [error |-> "x"]} \cup {[response |-> v] : v \in InfoValues}

\* _get_active_status testing the truth value of the response
GetActiveStatusTruthy(response) ==
    IF response = Absent THEN Absent
    ELSE IF "error" \in DOMAIN response THEN Absent
    ELSE LET active == response.response
         IN  IF active \in {[bool |-> TRUE], [int |-> 1], [str |-> "true"]}
             THEN [bool |-> TRUE]
             ELSE [bool |-> FALSE]

\* StatusMonitor._get_active_status, from the return of send_request on
GetActiveStatus(response) ==
    IF response = Absent THEN Absent
    ELSE IF "error" \in DOMAIN response THEN Absent
    ELSE LET active == response.response
         IN  IF active = [bool |-> TRUE] THEN [bool |-> TRUE]
             ELSE IF active = [bool |-> FALSE] THEN [bool |-> FALSE]
             ELSE Absent

\* _get_status, lines 43-49: the status of account a and its routes
Status(a, conn) ==
    <<[username |-> PLAYER_CONFIGS[a].username,
       server |-> PLAYER_CONFIGS[a].server,
       connected |-> conn,
       attack_warnings |-> PLAYER_CONFIGS[a].enabled],
      PLAYER_CONFIGS[a].visibility>>

\* the results of the tasks in the order the tasks finished
GatherAsCompleted(conn, order) ==
    [i \in DOMAIN order |-> Status(order[i], conn[order[i]])]

\* asyncio.gather: the results of the tasks in the order they were passed
Gather(conn, order) ==
    [i \in DOMAIN PLAYER_CONFIGS |-> Status(i, conn[i])]

\* StatusMonitor: get_status has not been called
MonitorInit ==
    /\ gpc = "idle"
    /\ spc = [a \in Accounts |-> "none"]
    /\ info_sent = [a \in Accounts |-> 0]
    /\ info_response = [a \in Accounts |-> NoCall]
    /\ connected = [a \in Accounts |-> NoCall]
    /\ completed = <<>>
    /\ status_list = <<>>

\* get_status, lines 17-21: one task per account, each up to its send_request
GetStatus ==
    /\ gpc = "idle"
    /\ gpc' = "gathering"
    /\ spc' = [a \in Accounts |-> "awaiting"]
    /\ info_sent' = [a \in Accounts |-> info_sent[a] + 1]
    /\ UNCHANGED <<info_response, connected, completed, status_list>>
    /\ UNCHANGED <<commVars, fate, listenerVars, history, input, output, extra>>

\* _get_status: the info request of account a returns `response`
StatusDone(a, response) ==
    /\ spc[a] = "awaiting"
    /\ spc' = [spc EXCEPT ![a] = "done"]
    /\ info_response' = [info_response EXCEPT ![a] = response]
    /\ connected' = [connected EXCEPT ![a] = GetActiveStatus(response)]
    /\ completed' = Append(completed, a)
    /\ UNCHANGED <<gpc, info_sent, status_list>>
    /\ UNCHANGED <<commVars, fate, listenerVars, history, input, output, extra>>

\* get_status, lines 21-22: every task has finished, gather returns
GetStatusReturn ==
    /\ gpc = "gathering"
    /\ \A a \in Accounts : spc[a] = "done"
    /\ gpc' = "returned"
    /\ status_list' = Gather(connected, completed)
    /\ UNCHANGED <<spc, info_sent, info_response, connected, completed>>
    /\ UNCHANGED <<commVars, fate, listenerVars, history, input, output, extra>>

StatusNext ==
    \/ GetStatus
    \/ \E a \in Accounts, response \in InfoResponses : StatusDone(a, response)
    \/ GetStatusReturn

\* ------------------------------------------------------ Request and Auth
\* every part of the program but the function under study, which a run
\* calls once
rest == <<commVars, fate, listenerVars, history, monitorVars, extra>>

\* Auth.CONTROL_PRIVATE_KEY, the one key of the process
CONTROL_PRIVATE_KEY == "control-key"

\* the commands of a Request
Commands == {"disconnect", "reconnect", "info", "send", "search", "login"}

\* the requests whose message is built
Requests ==
    [username : {"u1", "u2"}, password : {"p1", "p2"}, server : {"s1"},
     command : Commands, args : {"a1", "a2"}, timestamp : {0, 1},
     msg_id : {0, 1}]

\* json.dumps
Dumps(obj) == [json |-> obj]

\* str.encode
Encode(str) == [utf8 |-> str]

\* base64.b16encode(...).decode()
B16Encode(bytes) == [b16 |-> bytes]

\* base64.b16decode
B16Decode(str) == [unb16 |-> str]

\* Auth.client_digest
ClientDigest(message, secret) ==
    B16Encode([hmac_sha256 |-> [key |-> secret, data |-> message]])

\* Auth.control_digest
ControlDigest(message) ==
    B16Encode([ed25519 |-> [key |-> B16Decode(CONTROL_PRIVATE_KEY),
                            data |-> message]])

\* the content block of Request.message
Content(req) ==
    [username |-> req.username, server |-> req.server,
     command |-> req.command, args |-> req.args,
     timestamp |-> req.timestamp, msg_id |-> req.msg_id]

\* Request.message signing every command with the account's secret
RequestMessageAllClient(req) ==
    LET content == Content(req)
        content_bytes == Encode(Dumps(content))
        digest == ClientDigest(content_bytes, Encode(req.password))
    IN  Dumps([content |-> content, digest |-> digest])

\* Request.message
RequestMessage(req) ==
    LET content == Content(req)
        content_bytes == Encode(Dumps(content))
        digest == IF req.command \in {"disconnect", "reconnect"}
                  THEN ControlDigest(content_bytes)
                  ELSE ClientDigest(content_bytes, Encode(req.password))
    IN  Dumps([content |-> content, digest |-> digest])

\* the message of some request is built
BuildMessage ==
    /\ input = NoCall
    /\ \E req \in Requests :
            /\ input' = [req |-> req]
            /\ output' = [ret |-> RequestMessage(req)]
            /\ UNCHANGED rest

MessageNext == BuildMessage

\* ------------------------------------------- data_process.AttackListener
\* the entries of a decoded batch: those of the polls, an entry with no
\* indicator and no fields, and an entry with an id but no target
DecodeEntries ==
    Entries
    \cup {[GS |-> FALSE, GA |-> FALSE, M |-> [missing |-> TRUE]],
          [GS |-> FALSE, GA |-> TRUE, M |-> [MID |-> 1]]}

\* the raw messages that are decoded: up to three entries, or garbage
Batches ==
    {Garbage, [M |-> <<>>]}
    \cup {[M |-> <<e>>] : e \in DecodeEntries}
    \cup {[M |-> <<e1, e2>>] : e1, e2 \in DecodeEntries}
    \cup {[M |-> <<e1, e2, e3>>] : e1, e2, e3 \in DecodeEntries}

\* what _unpack_atk_data did with each entry of a raw message
Unpacked(msg) ==
    IF msg = Garbage THEN <<>>
    ELSE [i \in DOMAIN msg.M |-> UnpackAtkData(msg.M[i])]

\* some raw message is decoded
Decode ==
    /\ input = NoCall
    /\ \E msg \in Batches :
            /\ input' = [message |-> msg]
            /\ output' = [ret |-> Deserialize(msg), unpacked |-> Unpacked(msg)]
            /\ UNCHANGED rest

DecodeNext == Decode

\* ------------------------------------------------------------------ utils
\* the durations that are rendered, the largest of the test among them
Seconds == (-MaxSeconds..MaxSeconds) \cup {86400}

\* one "{n}{unit}" of a rendered duration
Part(n, unit) == [n |-> n, unit |-> unit]

\* as_compound_time taking the minutes of the whole duration
AsCompoundTimeWholeMinutes(seconds) ==
    LET h == seconds \div 3600
        m == seconds \div 60
        s == seconds % 60
    IN  IF h # 0 THEN <<Part(h, "h"), Part(m, "m"), Part(s, "s")>>
        ELSE IF m # 0 THEN <<Part(m, "m"), Part(s, "s")>>
        ELSE <<Part(s, "s")>>

\* utils.as_compound_time: the parts that the result joins with spaces
AsCompoundTime(seconds) ==
    LET h == seconds \div 3600
        m == (seconds \div 60) % 60
        s == seconds % 60
    IN  IF h # 0 THEN <<Part(h, "h"), Part(m, "m"), Part(s, "s")>>
        ELSE IF m # 0 THEN <<Part(m, "m"), Part(s, "s")>>
        ELSE <<Part(s, "s")>>

\* some duration is rendered
Render ==
    /\ input = NoCall
    /\ \E seconds \in Seconds :
            /\ input' = [seconds |-> seconds]
            /\ output' = [ret |-> AsCompoundTime(seconds)]
            /\ UNCHANGED rest

RenderNext == Render

\* ---------------------------------------------------------- ConfigManager
\* the characters of a configuration path
PathChars == {"_", "i", "d", "$", "a", "."}

\* the paths given to the ConfigManager, as sequences of characters
Paths == UNION {[1..n -> PathChars] : n \in 0..MaxPathLen}

\* the guilds whose configuration is addressed
Guilds == {0, 1}

\* what aggregate does: it raises, or gives a cursor over these outputs
Replies ==
    {[raises |-> TRUE]}
    \cup {[outputs |-> o] : o \in {<<>>, <<1>>, <<1, 2>>, <<2, 1>>}}

\* _validate_path taking the empty path for a field path
ValidatePathAllowEmpty(path) ==
    IF path = <<"_", "i", "d">> THEN FALSE
    ELSE IF Len(path) > 0 /\ path[1] = "$" THEN FALSE
    ELSE TRUE

\* ConfigManager._validate_path
ValidatePath(path) ==
    IF path = <<"_", "i", "d">> THEN FALSE
    ELSE IF Len(path) > 0 /\ path[1] = "$" THEN FALSE
    ELSE IF path = <<>> THEN FALSE
    ELSE TRUE

\* the pipeline that get hands to aggregate
Pipeline(guild_id, path) ==
    IF path # <<>>
    THEN <<[match |-> [id |-> guild_id, exists |-> path]],
           [project |-> [output |-> <<"$">> \o path]]>>
    ELSE <<[match |-> [id |-> guild_id]],
           [project |-> [id |-> 0]],
           [project |-> [output |-> <<"$", "$", "R", "O", "O", "T">>]]>>

\* get refusing every path that _validate_path refuses
ConfigManagerGetStrict(guild_id, path, reply) ==
    IF ~ValidatePath(path)
    THEN [raised |-> "InvalidPathError", queries |-> <<>>]
    ELSE IF "raises" \in DOMAIN reply \/ reply.outputs = <<>>
         THEN [raised |-> "InvalidPathError",
               queries |-> <<Pipeline(guild_id, path)>>]
         ELSE [ret |-> reply.outputs[1],
               queries |-> <<Pipeline(guild_id, path)>>]

\* ConfigManager.get, with the reply of aggregate
ConfigManagerGet(guild_id, path, reply) ==
    IF ~ValidatePath(path) /\ path # <<>>
    THEN [raised |-> "InvalidPathError", queries |-> <<>>]
    ELSE IF "raises" \in DOMAIN reply \/ reply.outputs = <<>>
         THEN [raised |-> "InvalidPathError",
               queries |-> <<Pipeline(guild_id, path)>>]
         ELSE [ret |-> reply.outputs[1],
               queries |-> <<Pipeline(guild_id, path)>>]

\* ConfigManager.update, with update_one raising or not
ConfigManagerUpdate(guild_id, path, value, fails) ==
    IF ~ValidatePath(path) THEN [ret |-> FALSE, writes |-> <<>>]
    ELSE [ret |-> ~fails,
          writes |-> <<[filter |-> guild_id, set |-> path, value |-> value,
                        upsert |-> TRUE]>>]

\* ConfigManager.delete, with update_one raising or not
ConfigManagerDelete(guild_id, path, fails) ==
    IF ~ValidatePath(path) THEN [ret |-> FALSE, writes |-> <<>>]
    ELSE [ret |-> ~fails,
          writes |-> <<[filter |-> guild_id, unset |-> path]>>]

\* a call of get
CallGet ==
    /\ input = NoCall
    /\ \E guild_id \in Guilds, path \in Paths, reply \in Replies :
            /\ input' = [op |-> "get", guild_id |-> guild_id, path |-> path,
                         reply |-> reply]
            /\ output' = ConfigManagerGet(guild_id, path, reply)
            /\ UNCHANGED rest

\* a call of update
CallUpdate ==
    /\ input = NoCall
    /\ \E guild_id \in Guilds, path \in Paths, value \in {1, 2},
           fails \in BOOLEAN :
            /\ input' = [op |-> "update", guild_id |-> guild_id, path |-> path,
                         value |-> value, fails |-> fails]
            /\ output' = ConfigManagerUpdate(guild_id, path, value, fails)
            /\ UNCHANGED rest

\* a call of delete
CallDelete ==
    /\ input = NoCall
    /\ \E guild_id \in Guilds, path \in Paths, fails \in BOOLEAN :
            /\ input' = [op |-> "delete", guild_id |-> guild_id, path |-> path,
                         fails |-> fails]
            /\ output' = ConfigManagerDelete(guild_id, path, fails)
            /\ UNCHANGED rest

ConfigNext == CallGet \/ CallUpdate \/ CallDelete

\* --------------------------------------------------------------- PathDict
\* the keys of the dictionaries
Keys == {"a", "b"}

\* the values that are no dictionary: a number, a list and the string "Bob"
Leaves == {[leaf |-> "int"], [leaf |-> "list"], [leaf |-> "str"]}

\* the keys that `in` finds in the string "Bob"
StrHas == {"b"}

\* the dictionaries with values among vals
DictsOver(vals) == {[d |-> f] : f \in UNION {[ks -> vals] : ks \in SUBSET Keys}}

\* {}
EmptyDict == [d |-> <<>>]

\* the dictionaries a PathDict holds before the call, two levels deep
Dicts == DictsOver(Leaves \cup DictsOver(Leaves \cup {EmptyDict}))

\* the lists of keys given as path
KeyPaths == UNION {[1..n -> Keys] : n \in 0..MaxKeys}

\* the values given to set
SetValues == {[leaf |-> "int"], EmptyDict, [d |-> [k \in {"a"} |-> [leaf |-> "int"]]]}

\* isinstance(v, dict)
IsDict(v) == "d" \in DOMAIN v

\* dict[key] = v
SetItem(obj, key, v) ==
    [d |-> [k \in DOMAIN obj.d \cup {key} |-> IF k = key THEN v ELSE obj.d[k]]]

\* del dict[key]
DelItem(obj, key) == [d |-> [k \in DOMAIN obj.d \ {key} |-> obj.d[k]]]

\* PathDict.update, lines 125-139, from current_obj on along a path that is
\* not empty: how the call ends and what current_obj has become
RECURSIVE Traverse(_, _, _, _)
Traverse(current_obj, path, action, value) ==
    LET key == Head(path)
    IN  IF Len(path) > 1
        THEN IF ~IsDict(current_obj)
             THEN [out |-> "false", obj |-> current_obj]
             ELSE LET child == IF key \in DOMAIN current_obj.d
                               THEN current_obj.d[key]
                               ELSE EmptyDict
                      below == Traverse(child, Tail(path), action, value)
                  IN  [out |-> below.out,
                       obj |-> SetItem(current_obj, key, below.obj)]
        ELSE IF action = "set"
             THEN IF IsDict(current_obj)
                  THEN [out |-> "true", obj |-> SetItem(current_obj, key, value)]
                  ELSE [out |-> "TypeError", obj |-> current_obj]
             ELSE IF IsDict(current_obj)
                  THEN IF key \in DOMAIN current_obj.d
                       THEN [out |-> "true", obj |-> DelItem(current_obj, key)]
                       ELSE [out |-> "false", obj |-> current_obj]
                  ELSE IF current_obj.leaf = "list"
                            \/ (current_obj.leaf = "str" /\ key \notin StrHas)
                       THEN [out |-> "false", obj |-> current_obj]
                       ELSE [out |-> "TypeError", obj |-> current_obj]

\* PathDict.update: what it returns or raises, and _dict_obj after it
PathDictUpdate(dict_obj, path, action, value) ==
    IF path # <<>>
    THEN LET end == Traverse(dict_obj, path, action, value)
         IN  IF end.out = "TypeError"
             THEN [raised |-> "TypeError", dict_obj |-> end.obj]
             ELSE [ret |-> end.out = "true", dict_obj |-> end.obj]
    ELSE IF action = "set"
         THEN IF ~IsDict(value) THEN [ret |-> FALSE, dict_obj |-> dict_obj]
              ELSE [ret |-> TRUE, dict_obj |-> value]
         ELSE [ret |-> TRUE, dict_obj |-> EmptyDict]

\* a call of update with action "set"
CallSet ==
    /\ input = NoCall
    /\ \E dict_obj \in Dicts, path \in KeyPaths, value \in SetValues :
        /\ input' = [dict_obj |-> dict_obj, path |-> path, action |-> "set",
                     value |-> value]
        /\ output' = PathDictUpdate(dict_obj, path, "set", value)
        /\ UNCHANGED rest

\* a call of update with action "delete"
CallDel ==
    /\ input = NoCall
    /\ \E dict_obj \in Dicts, path \in KeyPaths :
        /\ input' = [dict_obj |-> dict_obj, path |-> path,
                     action |-> "delete", value |-> [leaf |-> "int"]]
        /\ output' = PathDictUpdate(dict_obj, path, "delete", [leaf |-> "int"])
        /\ UNCHANGED rest

PathDictNext == CallSet \/ CallDel

\* ------------------------------------------------------- AtkWarningRouter
\* the guilds and the channels of the chat platform
GuildIds == {1, 2}
ChannelIds == {11, 21, 99}

\* BotUtils.get_channel_guild_id: channel 11 is of guild 1, channel 21 of
\* guild 2 and channel 99 of no guild
ChannelGuildId(channel_id) ==
    IF channel_id = 11 THEN [int |-> 1]
    ELSE IF channel_id = 21 THEN [int |-> 2]
    ELSE Absent

\* the field is not in the guild's configuration: ConfigManager.get raises
Missing == [missing |-> TRUE]

\* the routing configurations a guild's users have set
RouteConfigs ==
    [username : {"u1", "u2"}, server : {"s1"},
     channel_ids : {{11}, {21}, {11, 21, 99}}]
    \cup [username : {"u1"}, server : {"s2"},
          channel_ids : {{11}, {21}, {11, 21, 99}}]

\* a routing configuration without its channels
Partial == [username |-> "u1", server |-> "s1"]

\* what is stored under services.attack_listener.routes
StoredRoutes ==
    {Missing, [str |-> "x"], [entries |-> {}]}
    \cup {[entries |-> {c}] : c \in RouteConfigs}
    \cup {[entries |-> {c, Partial}] : c \in {rc \in RouteConfigs : rc.server = "s1"}}
    \cup {[entries |-> {c1, c2}] :
             c1 \in {rc \in RouteConfigs : rc.username = "u1"},
             c2 \in {rc \in RouteConfigs : rc.username = "u2"}}

\* what is stored under services.attack_listener.enabled
StoredEnabled == {Missing, [bool |-> TRUE], [bool |-> FALSE], [int |-> 1]}

\* the configuration of one guild
GuildConfigs == [enabled : StoredEnabled, routes : StoredRoutes]

\* the routing information of an envelope of account u1 on s1
RoutingInfos ==
    {[username |-> "u1", server |-> "s1", routes |-> r] :
        r \in {<<>>, <<1>>, <<2>>, <<1, 2>>}}

\* validate_type(routes, dict[str, GuildAttackListenerRoutingConfigType])
ValidRoutes(routes) ==
    /\ "entries" \in DOMAIN routes
    /\ \A c \in routes.entries :
          DOMAIN c = {"username", "server", "channel_ids"}

\* AtkWarningRouter._get_route_target_channel_ids
GetRouteTargetChannelIds(config_routes, routing_info) ==
    UNION {c.channel_ids :
              c \in {rc \in config_routes.entries :
                        /\ rc.username = routing_info.username
                        /\ rc.server = routing_info.server}}

\* AtkWarningRouter._get_guild_atk_listener_routes
GetGuildAtkListenerRoutes(guild_id, routing_info, config) ==
    IF config.enabled = Missing \/ config.routes = Missing THEN Absent
    ELSE IF config.enabled # [bool |-> TRUE] THEN Absent
    ELSE IF ~ValidRoutes(config.routes) THEN Absent
    ELSE [channel_ids |-> GetRouteTargetChannelIds(config.routes, routing_info),
          guild_id |-> guild_id]

\* _get_valid_channels keeping every configured channel
GetValidChannelsAny(route_channels) == route_channels.channel_ids

\* AtkWarningRouter._get_valid_channels
GetValidChannels(route_channels) ==
    {channel_id \in route_channels.channel_ids :
        ChannelGuildId(channel_id) = [int |-> route_channels.guild_id]}

\* AtkWarningRouter._get_atk_listener_routes: the routes that succeeded
GetAtkListenerRoutes(routing_info, configs) ==
    {GetGuildAtkListenerRoutes(routing_info.routes[i], routing_info,
                               configs[routing_info.routes[i]]) :
        i \in DOMAIN routing_info.routes} \ {Absent}

\* AtkWarningRouter.get_route
GetRoute(routing_info, configs) ==
    UNION {GetValidChannels(route_channels) :
              route_channels \in GetAtkListenerRoutes(routing_info, configs)}

\* a call of get_route
CallGetRoute ==
    /\ input = NoCall
    /\ \E routing_info \in RoutingInfos, configs \in [GuildIds -> GuildConfigs] :
        /\ input' = [routing_info |-> routing_info, configs |-> configs]
        /\ output' = [ret |-> GetRoute(routing_info, configs)]
        /\ UNCHANGED rest

RouteNext == CallGetRoute

\* ---------------------------------------------------- BotManager, config
\* the contents of the messages of a configuration channel: text that is
\* no JSON object with path and action, set with and without a value,
\* delete, and an action that does not exist
Contents ==
    {[text |-> "hello"],
     [path |-> <<"a">>, action |-> "set"],
     [path |-> <<"a">>, action |-> "get", value |-> [leaf |-> "int"]],
     [path |-> <<"a">>, action |-> "delete", value |-> [leaf |-> "int"]]}
    \cup [path : {<<>>, <<"a">>, <<"a", "b">>}, action : {"set"},
          value : {[leaf |-> "int"], EmptyDict}]
    \cup [path : {<<>>, <<"a">>, <<"a", "b">>}, action : {"delete"}]

\* the histories of a channel, the newest message first
Histories == UNION {[1..n -> Contents] : n \in 0..MaxMsgs}

\* what _get_channel gives for the configuration channel
ChannelKinds == {"text", "none", "forum"}

\* the entry of _guild_configs for the guild before the load
LoadedConfigs ==
    {Absent, EmptyDict, [d |-> [k \in {"a"} |-> [leaf |-> "int"]]]}

\* utils.parse_config_input
ParseConfigInput(content) ==
    IF ~({"path", "action"} \subseteq DOMAIN content) THEN Absent
    ELSE IF content.action = "set"
         THEN IF "value" \notin DOMAIN content THEN Absent
              ELSE [path |-> content.path, action |-> "set",
                    value |-> content.value]
         ELSE IF content.action = "delete"
              THEN [path |-> content.path, action |-> "delete",
                    value |-> [leaf |-> "int"]]
              ELSE Absent

\* _load_config, lines 327-355: the parsed messages, newest first, up to
\* the first one whose path is empty
RECURSIVE ParsedMsgs(_)
ParsedMsgs(msgs) ==
    IF msgs = <<>> THEN <<>>
    ELSE LET parsed == ParseConfigInput(Head(msgs))
         IN  IF parsed = Absent THEN ParsedMsgs(Tail(msgs))
             ELSE IF parsed.path = <<>> THEN <<parsed>>
             ELSE <<parsed>> \o ParsedMsgs(Tail(msgs))

Raised == [raised |-> "TypeError"]

\* BotManager._update_config on the guild's entry of _guild_configs: the
\* entry after it, or the exception of PathDict.update
UpdateConfig(config, parsed_input) ==
    IF parsed_input.action = "set"
    THEN LET end == PathDictUpdate(IF config = Absent THEN EmptyDict ELSE config,
                                   parsed_input.path, "set", parsed_input.value)
         IN  IF "raised" \in DOMAIN end THEN Raised ELSE end.dict_obj
    ELSE IF config = Absent THEN Absent
         ELSE LET end == PathDictUpdate(config, parsed_input.path, "delete",
                                        parsed_input.value)
              IN  IF "raised" \in DOMAIN end THEN Raised ELSE end.dict_obj

\* _load_config, lines 362-364: the parsed messages applied oldest first
RECURSIVE UpdateAll(_, _)
UpdateAll(config, parsed_msgs) ==
    IF parsed_msgs = <<>> \/ config = Raised THEN config
    ELSE UpdateAll(UpdateConfig(config, parsed_msgs[Len(parsed_msgs)]),
                   SubSeq(parsed_msgs, 1, Len(parsed_msgs) - 1))

\* BotManager._load_config: what it returns or raises and the guild's entry
\* of _guild_configs after it
LoadConfig(config, channel, msgs) ==
    IF channel # "text" THEN [ret |-> FALSE, config |-> config]
    ELSE LET cleared == UpdateConfig(config, [action |-> "delete", path |-> <<>>,
                                              value |-> [leaf |-> "int"]])
             loaded == UpdateAll(cleared, ParsedMsgs(msgs))
         IN  IF loaded = Raised THEN Raised
             ELSE [ret |-> TRUE, config |-> loaded]

\* a call of _load_config
CallLoadConfig ==
    /\ input = NoCall
    /\ \E config \in LoadedConfigs, channel \in ChannelKinds, msgs \in Histories :
        /\ input' = [config |-> config, channel |-> channel, msgs |-> msgs]
        /\ output' = LoadConfig(config, channel, msgs)
        /\ UNCHANGED rest

LoadNext == CallLoadConfig

\* --------------------------------------------------------- _TypeValidator
\* the types validate_type is asked about; TypeAdapter has no schema for
\* the last one and raises
Types == {"int", "str", "bool", "list[str]", "object"}

\* the objects validated
Objects == {[int |-> 1], [str |-> "x"], [bool |-> TRUE],
            [list |-> <<[str |-> "x"]>>], [list |-> <<[int |-> 1]>>]}

\* pydantic.TypeAdapter(obj_type)
TypeAdapter(obj_type) ==
    IF obj_type = "object" THEN [raised |-> "PydanticSchemaGenerationError"]
    ELSE [adapter |-> obj_type]

\* type_adapter.validate_python(obj, strict=True, extra="forbid") succeeds
ValidatePython(type_adapter, obj) ==
    CASE type_adapter.adapter = "int" -> "int" \in DOMAIN obj
      [] type_adapter.adapter = "str" -> "str" \in DOMAIN obj
      [] type_adapter.adapter = "bool" -> "bool" \in DOMAIN obj
      [] type_adapter.adapter = "list[str]" ->
             /\ "list" \in DOMAIN obj
             /\ \A i \in DOMAIN obj.list : "str" \in DOMAIN obj.list[i]

\* list.index: the first place of the value
ListIndex(list, value) ==
    CHOOSE i \in DOMAIN list :
        /\ list[i] = value
        /\ \A j \in 1..(i - 1) : list[j] # value

\* list.insert(0, value)
InsertFirst(list, value) == <<value>> \o list

\* list.pop()
PopLast(list) == SubSeq(list, 1, Len(list) - 1)

\* validate_type making a new adapter at every call
TypeValidatorValidateTypeNoLookup(keys, items, obj, obj_type) ==
    LET made_adapter == TypeAdapter(obj_type)
    IN  IF "raised" \in DOMAIN made_adapter
        THEN [raised |-> made_adapter.raised, keys |-> keys, items |-> items]
        ELSE LET ks == InsertFirst(keys, obj_type)
                 is == InsertFirst(items, made_adapter)
                 over == Len(ks) > CACHE_MAX_LEN
             IN  [ret |-> ValidatePython(made_adapter, obj),
                  keys |-> IF over THEN PopLast(ks) ELSE ks,
                  items |-> IF over THEN PopLast(is) ELSE is]

\* _TypeValidator.validate_type: the value returned or the exception raised,
\* and the two lists of the cache afterwards
TypeValidatorValidateType(keys, items, obj, obj_type) ==
    IF \E i \in DOMAIN keys : keys[i] = obj_type
    THEN [ret |-> ValidatePython(items[ListIndex(keys, obj_type)], obj),
          keys |-> keys, items |-> items]
    ELSE LET made_adapter == TypeAdapter(obj_type)
         IN  IF "raised" \in DOMAIN made_adapter
             THEN [raised |-> made_adapter.raised, keys |-> keys,
                   items |-> items]
             ELSE LET ks == InsertFirst(keys, obj_type)
                      is == InsertFirst(items, made_adapter)
                      over == Len(ks) > CACHE_MAX_LEN
                  IN  [ret |-> ValidatePython(made_adapter, obj),
                       keys |-> IF over THEN PopLast(ks) ELSE ks,
                       items |-> IF over THEN PopLast(is) ELSE is]

\* one call of validate_type
CallValidateType ==
    \E obj \in Objects, obj_type \in Types :
        LET r == TypeValidatorValidateType(cache_keys, cache_items, obj,
                                           obj_type)
        IN  /\ input' = [obj |-> obj, obj_type |-> obj_type]
            /\ output' = IF "raised" \in DOMAIN r THEN [raised |-> r.raised]
                         ELSE [ret |-> r.ret]
            /\ cache_keys' = r.keys
            /\ cache_items' = r.items
            /\ UNCHANGED <<commVars, fate, listenerVars, history, monitorVars,
                           startVars>>

CacheNext == CallValidateType

vars == <<commVars, fate, listenerVars, history, aside>>

Init ==
    /\ CommInit /\ fate = "none" /\ ListenerInit /\ HistoryInit
    /\ MonitorInit /\ input = NoCall /\ output = NoCall
    /\ start_flag = FALSE /\ loops = 0 /\ starts = 0
    /\ cache_keys = <<>> /\ cache_items = <<>>

Next ==
    \/ SendRequest
    \/ \E i \in DOMAIN calls : Return(i)
    \/ ConnectOk
    \/ ConnectFail
    \/ \E n \in Conns : Drop(n)
    \/ ConnectReturn
    \/ Cooldown
    \/ \E n \in Conns : SendLoopWait(n)
    \/ \E n \in Conns : SendLoopSend(n)
    \/ \E n \in Conns : SendLoopClosed(n)
    \/ \E n \in Conns, frame \in Frames : RecvFrame(n, frame)

\* send_request, with the requests enqueued while no connection is open
\* written down
SendRequestLogged ==
    /\ SendRequestCore
    /\ offline' = IF \A n \in Conns : ws[n] # "open"
                  THEN offline \cup {next_msg_id}
                  ELSE offline
    /\ UNCHANGED <<fate, listenerVars, delivery, carried, cycle, seen, counts,
                   tasks, launches, aside>>

\* the same program with that record
QueueNext ==
    \/ SendRequestLogged
    \/ \E i \in DOMAIN calls : Return(i)
    \/ ConnectOk
    \/ ConnectFail
    \/ \E n \in Conns : Drop(n)
    \/ ConnectReturn
    \/ Cooldown
    \/ \E n \in Conns : SendLoopWait(n)
    \/ \E n \in Conns : SendLoopSend(n)
    \/ \E n \in Conns : SendLoopClosed(n)
    \/ \E n \in Conns, frame \in Frames : RecvFrame(n, frame)

QueueSpec == Init /\ [][QueueNext]_vars

\* start creating a _connect_loop task at every call
ServerStartUnguarded ==
    /\ starts < MaxStarts
    /\ starts' = starts + 1
    /\ loops' = loops + 1
    /\ start_flag' = TRUE
    /\ UNCHANGED <<commVars, fate, listenerVars, history, monitorVars, input,
                   output, cacheVars>>

\* start: the first call creates the _connect_loop task and sets the flag
ServerStart ==
    /\ starts < MaxStarts
    /\ starts' = starts + 1
    /\ IF ~start_flag
       THEN /\ loops' = loops + 1
            /\ start_flag' = TRUE
       ELSE UNCHANGED <<start_flag, loops>>
    /\ UNCHANGED <<commVars, fate, listenerVars, history, monitorVars, input,
                   output, cacheVars>>

\* a _connect_loop task exists
Looping == loops > 0

\* the program from before start is called: the steps of the connect loop
\* and of the loops it starts wait for the task
StartNext ==
    \/ ServerStart
    \/ SendRequest
    \/ \E i \in DOMAIN calls : Return(i)
    \/ Looping /\ ConnectOk
    \/ Looping /\ ConnectFail
    \/ \E n \in Conns : Drop(n)
    \/ Looping /\ ConnectReturn
    \/ Looping /\ Cooldown
    \/ \E n \in Conns : SendLoopWait(n)
    \/ \E n \in Conns : SendLoopSend(n)
    \/ \E n \in Conns : SendLoopClosed(n)
    \/ \E n \in Conns, frame \in Frames : RecvFrame(n, frame)

StartSpec == Init /\ [][StartNext]_vars

\* the same program with the clock of the callers' waiting time
TimedNext == Next \/ Tick

Spec == Init /\ [][Next]_vars

TimedSpec == Init /\ [][TimedNext]_vars

\* the same program with the fate of every inbound frame written down
FrameNext ==
    \/ SendRequest
    \/ \E i \in DOMAIN calls : Return(i)
    \/ ConnectOk
    \/ ConnectFail
    \/ \E n \in Conns : Drop(n)
    \/ ConnectReturn
    \/ Cooldown
    \/ \E n \in Conns : SendLoopWait(n)
    \/ \E n \in Conns : SendLoopSend(n)
    \/ \E n \in Conns : SendLoopClosed(n)
    \/ \E n \in Conns, frame \in Frames : RecvFrameLogged(n, frame)

FrameSpec == Init /\ [][FrameNext]_vars

\* the listeners, with send_request as the source of their responses
ListenerSpec == Init /\ [][ListenerNext]_vars

\* the listeners and the consumer of the output queue, with the record kept
HistorySpec == Init /\ [][HistoryNext]_vars

\* the listeners, with the ids decoded and kept per account
SeenSpec == Init /\ [][SeenNext]_vars

\* the listeners, with the tasks start creates counted
TaskSpec == Init /\ [][TaskNext]_vars

\* _get_current_index of every account, fed any sequence of probe results
ProbeSpec == Init /\ [][ProbeNext]_vars

\* one get_status call, with send_request as the source of the responses
StatusSpec == Init /\ [][StatusNext]_vars

\* Request.message of any request
MessageSpec == Init /\ [][MessageNext]_vars

\* deserialize of any raw message
DecodeSpec == Init /\ [][DecodeNext]_vars

\* as_compound_time of any duration
RenderSpec == Init /\ [][RenderNext]_vars

\* the calls of the ConfigManager, with the database as the source of replies
ConfigSpec == Init /\ [][ConfigNext]_vars

\* PathDict.update on any dictionary
PathDictSpec == Init /\ [][PathDictNext]_vars

\* get_route for any configuration of the guilds
RouteSpec == Init /\ [][RouteNext]_vars

\* _load_config for any history of the configuration channel
LoadSpec == Init /\ [][LoadNext]_vars

\* validate_type called any number of times
CacheSpec == Init /\ [][CacheNext]_vars

\* ------------------------------------------------------ claims: ServerComm
Key(i) == Str(calls[i].msg_id)

\* no frame carrying the id of call i has been put in its slot or returned
NoFrameFor(i) ==
    /\ calls[i].result \notin {ResponseTo(k) : k \in 0..MaxCalls}
    /\ Key(i) \in DOMAIN response_register => response_register[Key(i)] = <<>>

\* C2: a send_request call for which no frame arrived within its timeout has
\* returned the absence value and the registry holds no slot for its id
C2_TimeoutReturnsAbsence ==
    \A i \in DOMAIN calls :
        (calls[i].waited > REQUEST_TIMEOUT /\ NoFrameFor(i))
            => /\ calls[i].status = "returned"
               /\ calls[i].result = Absent
               /\ Key(i) \notin DOMAIN response_register

\* C3: whatever the arrival order of the frames, a call that returned got the
\* content of the frame carrying its own sequence id, and every content waiting
\* in a slot is the one addressed to that slot
C3_OwnResponse ==
    /\ \A i \in DOMAIN calls :
          calls[i].status = "returned"
              => calls[i].result = ResponseTo(calls[i].msg_id)
    /\ \A i \in DOMAIN calls :
          (Pending(i) /\ Key(i) \in DOMAIN response_register)
              => \A p \in DOMAIN response_register[Key(i)] :
                    response_register[Key(i)][p] = ResponseTo(calls[i].msg_id)

\* two calls were in flight together and the frame of the later one came first
C3_Witness ==
    /\ Len(calls) >= 2
    /\ Pending(1)
    /\ response_register[Key(1)] = <<>>
    /\ calls[2].status = "returned"
    /\ calls[2].result = ResponseTo(calls[2].msg_id)

\* C4: a call returns one content and keeps it, and a frame carrying the id of
\* a call that has returned changes neither a caller's result nor the registry
C4_OneResponse ==
    [][/\ \A i \in DOMAIN calls :
             calls[i].status = "returned"
                 => (i \in DOMAIN calls' /\ calls'[i] = calls[i])
       /\ \A n \in Conns, frame \in WellFormedFrames :
             (Resolved(frame) /\ RecvFrameLogged(n, frame))
                 => UNCHANGED <<response_register, calls>>]_vars

\* a frame came for a call that had returned, and the call kept its result
C4_Witness ==
    /\ fate = "resolved"
    /\ \E i \in DOMAIN calls :
          /\ calls[i].status = "returned"
          /\ calls[i].result = ResponseTo(calls[i].msg_id)
          /\ Key(i) \notin DOMAIN response_register

\* C5: the requests are written to the wire by increasing sequence id, over
\* all connections of the run
C5_WireOrder ==
    \A a, b \in DOMAIN wire : a < b => wire[a][2] < wire[b][2]

\* two requests were written, on two different connections
C5_Witness ==
    /\ Len(wire) >= 2
    /\ wire[1][1] # wire[2][1]

\* the _connect call of connection n has returned
ConnectReturned(n) ==
    /\ ws[n] # "none"
    /\ n < nconn \/ connPc # "active"

\* C6: once _connect has returned for a connection, neither the send loop nor
\* the receive loop of that connection is still running
C6_LoopsEndTogether ==
    \A n \in Conns :
        ConnectReturned(n) => (sendPc[n] = "done" /\ recvPc[n] = "done")

\* the request of call i was written on a connection that has closed since
DroppedWhilePending(i) ==
    /\ Pending(i)
    /\ response_register[Key(i)] = <<>>
    /\ \E n \in Conns :
          /\ ws[n] = "closed"
          /\ \E p \in DOMAIN wire : wire[p] = <<n, calls[i].msg_id>>

\* C7: a call whose connection dropped while it was pending does not wait
\* beyond its timeout: it returns the absence value
C7_DropReturnsAbsence ==
    \A i \in DOMAIN calls :
        DroppedWhilePending(i) => calls[i].waited <= REQUEST_TIMEOUT

\* C8: the connect loop never stops: an attempt that ends, whatever its
\* outcome, is followed by the cooldown, and the cooldown by a new attempt
C8_RetriesForever ==
    [][/\ connPc' \in {"connecting", "active", "cooldown"}
       /\ (connPc = "connecting" /\ connPc' # connPc)
             => connPc' \in {"active", "cooldown"}
       /\ (connPc = "active" /\ connPc' # connPc) => connPc' = "cooldown"
       /\ (connPc = "cooldown" /\ connPc' # connPc) => connPc' = "connecting"]_vars

\* a new attempt has started after a connection was closed
C8_Witness ==
    /\ connPc = "connecting"
    /\ nconn >= 1
    /\ ws[nconn] = "closed"

\* C9: sequence ids are handed out in strictly increasing order and never
\* reused, so no two calls in flight share a slot of the registry
C9_UniqueIds ==
    /\ \A i, j \in DOMAIN calls : i < j => calls[i].msg_id < calls[j].msg_id
    /\ \A i \in DOMAIN calls : calls[i].msg_id < next_msg_id
    /\ \A i, j \in DOMAIN calls :
          (i # j /\ Pending(i) /\ Pending(j)) => Key(i) # Key(j)

\* two calls are in flight, each with a slot of its own
C9_Witness ==
    /\ Len(calls) >= 2
    /\ Pending(1) /\ Pending(2)
    /\ Cardinality(DOMAIN response_register) = 2

\* C10: the ids in the pending-call registry are exactly the sequence ids of
\* the calls that were dispatched and have not returned
C10_RegistryIsPending ==
    DOMAIN response_register = {Key(i) : i \in {j \in DOMAIN calls : Pending(j)}}

\* a call has returned and its slot is gone while another call still waits
C10_Witness ==
    \E i, j \in DOMAIN calls :
        /\ calls[i].status = "returned"
        /\ Pending(j)
        /\ DOMAIN response_register = {Key(j)}


\* ------------------------------------------------- claims: AttackListener
\* C1: over all the responses polled, an atk_id produces at most one message
\* of the envelopes pushed to the output queue, and an id is in the seen set
\* exactly when its message was pushed
C1_NoDuplicateDelivery ==
    /\ \A i \in AtkIds : emitted[i] <= 1
    /\ \A i \in AtkIds : (i \in prev_atk_ids) <=> (emitted[i] = 1)

\* every id has been delivered and a poll is being answered again
C1_Witness ==
    /\ \A i \in AtkIds : emitted[i] = 1
    /\ \E a \in Accounts : lpc[a] = "poll"
    /\ output_queue = <<>>

\* the account's listener has left _get_current_index and runs its poll loop
Polling(a) == lpc[a] \in {"poll_sleep", "poll"}

\* C11: the start_index of an account's successive polls never decreases,
\* whatever responses its listener receives
C11_CursorMonotone ==
    [][\A a \in Accounts :
          (Polling(a) /\ lpc'[a] \in {"poll_sleep", "poll"})
              => index'[a] >= index[a]]_vars

\* C16: while an account acquires its cursor every failed probe has been
\* followed by one more probe, and once _get_current_index has returned it
\* has issued one probe more than failed, returned the index the
\* successful response carried, and probes no more
C16_ProbeUntilSuccess ==
    \A a \in Accounts :
        /\ lpc[a] = "probe" => probes[a] = failures[a] + 1
        /\ lpc[a] = "probe_sleep" => probes[a] = failures[a]
        /\ lpc[a] = "poll_sleep"
              => /\ probes[a] = failures[a] + 1
                 /\ index[a] = carried[a]
                 /\ outstanding[a] = <<>>

\* two probes failed and the third gave the index
C16_Witness ==
    \E a \in Accounts :
        /\ lpc[a] = "poll_sleep"
        /\ failures[a] = 2
        /\ probes[a] = 3
        /\ index[a] = 1

\* C17: an account's listener enters its poll loop only through a probe that
\* succeeded, never leaves it, and has a "gam" request outstanding only
\* inside it
C17_ProbeBeforePoll ==
    [][\A a \in Accounts :
          /\ Polling(a) => lpc'[a] \in {"poll_sleep", "poll"}
          /\ (~Polling(a) /\ lpc'[a] \in {"poll_sleep", "poll"})
                => \E response \in ProbeResponses :
                      /\ CarriedIndex(response) # Absent
                      /\ ProbeDone(a, response)
          /\ (\E p \in DOMAIN outstanding'[a] :
                  outstanding'[a][p].msg_type = "gam")
                => (Polling(a) /\ lpc'[a] = "poll")]_vars

\* one account polls with the "gam" filter while the other, whose probe
\* failed, is still waiting to probe again
C17_Witness ==
    \E a, b \in Accounts :
        /\ lpc[a] = "poll"
        /\ outstanding[a] = <<PollArgs(index[a])>>
        /\ lpc[b] = "probe_sleep"
        /\ outstanding[b] = <<>>

\* C19: an account never has two requests outstanding
C19_OneOutstanding ==
    \A a \in Accounts : Len(outstanding[a]) <= 1

\* two accounts each have a request outstanding, a probe and a poll
C19_Witness ==
    \E a, b \in Accounts :
        /\ outstanding[a] = <<ProbeArgs>>
        /\ Len(outstanding[b]) = 1
        /\ outstanding[b][1].msg_type = "gam"

\* the results of send_request that make _listener skip a cycle
SkippedResponses == {Absent, [error |-> "x"]}

\* C12: every atk_id the polls of an account have decoded has been kept
\* for that account, whatever has been kept for the other accounts
C12_PrivateSeenSet ==
    \A a \in Accounts : polled[a] \subseteq kept[a]

\* C13: a poll cycle that ends with the absence value or an error response
\* leaves the cursor, the seen set and the output queue as they were, and
\* the listener is back at the cooldown of its next cycle
C13_SkipChangesNothing ==
    [][\A a \in Accounts, response \in SkippedResponses :
          PollDoneLogged(a, response)
              => /\ UNCHANGED <<index, prev_atk_ids, output_queue>>
                 /\ lpc'[a] = "poll_sleep"]_vars

\* an account that has a cursor, with ids seen and an envelope waiting, has
\* just skipped a cycle
C13_Witness ==
    \E a \in Accounts :
        /\ cycle[a] = "skipped"
        /\ lpc[a] = "poll_sleep"
        /\ index[a] = 1
        /\ prev_atk_ids # {}
        /\ output_queue # <<>>

\* C14: the envelopes handed out and those still queued are, in order, one
\* per successful response with a kept message, each with exactly the kept
\* messages of its response and the username, server and routes of its account
C14_OneEnvelopePerResponse ==
    delivered \o output_queue = expected

\* two responses, polled by different accounts, each gave an envelope; the
\* first has been handed out and the second waits
C14_Witness ==
    /\ Len(expected) = 2
    /\ expected[1][1].username # expected[2][1].username
    /\ delivered = <<expected[1]>>
    /\ output_queue = <<expected[2]>>

\* C15: no envelope put on the output queue has an empty message list
C15_NoEmptyEnvelope ==
    \A p \in DOMAIN pushed : pushed[p][2] # <<>>

\* an account whose latest poll succeeded has never had an envelope put,
\* while another account has
C15_Witness ==
    \E b \in Accounts :
        /\ cycle[b] = "done"
        /\ pushed # <<>>
        /\ \A p \in DOMAIN pushed :
              pushed[p][1].username # PLAYER_CONFIGS[b].username

\* C18: the cursor of an account in its poll loop, and the start_index of
\* the poll it has outstanding, is the index its latest successful response
\* carried, whether or not that response gave messages
C18_PollFromLastIndex ==
    \A a \in Accounts :
        /\ Polling(a) => index[a] = carried[a]
        /\ \A p \in DOMAIN outstanding[a] :
              outstanding[a][p].msg_type = "gam"
                  => outstanding[a][p].start_index = carried[a]

\* an account polls from the index of a successful poll that gave nothing
C18_Witness ==
    \E a \in Accounts :
        /\ lpc[a] = "poll_sleep"
        /\ cycle[a] = "done"
        /\ pushed = <<>>
        /\ prev_atk_ids = {}
        /\ carried[a] = 1

\* C20: get hands out the envelopes in the order they were put, each once:
\* what was put is what was handed out followed by what still waits
C20_DeliveredInOrder ==
    pushed = delivered \o output_queue

\* two envelopes of different accounts have been handed out
C20_Witness ==
    /\ Len(delivered) = 2
    /\ delivered[1][1].username # delivered[2][1].username
    /\ output_queue = <<>>

\* the frame is well formed and the registry holds no slot for its msg_id
Unmatched(frame) ==
    /\ ~IsMalformed(frame)
    /\ Str(frame.msg_id) \notin DOMAIN response_register

\* C21: a frame whose msg_id has no slot in the registry is dropped: the
\* registry, the calls and the receive loop that read it stay as they were
C21_UnmatchedDropped ==
    [][\A n \in Conns, frame \in WellFormedFrames :
          (Unmatched(frame) /\ RecvFrameLogged(n, frame))
              => UNCHANGED <<response_register, calls, recvPc, ws>>]_vars

\* a frame with an id no call has was read while a call was waiting, and
\* the receive loop goes on
C21_Witness ==
    /\ fate = "unknown"
    /\ \E i \in DOMAIN calls : Pending(i) /\ response_register[Key(i)] = <<>>
    /\ \E n \in Conns : ws[n] = "open" /\ recvPc[n] = "running"

\* the places of the wire where the request with this msg_id was written
Writes(msg_id) == {p \in DOMAIN wire : wire[p][2] = msg_id}

\* C22: a request is written to the wire at most once in the run, on one
\* connection, and a request that was written is not in the queue again
C22_NoRedelivery ==
    \A i \in DOMAIN calls :
        /\ Cardinality(Writes(calls[i].msg_id)) <= 1
        /\ Writes(calls[i].msg_id) # {}
              => \A e \in request_queue : e[1] # calls[i].msg_id

\* a request was written on a connection that has closed, its call still
\* waits, and the send loop of the next connection found the queue empty
C22_Witness ==
    \E i \in DOMAIN calls :
        /\ Pending(i)
        /\ response_register[Key(i)] = <<>>
        /\ wire = <<<<1, calls[i].msg_id>>>>
        /\ ws[1] = "closed"
        /\ nconn = 2
        /\ ws[2] = "open"
        /\ sendPc[2] = "waiting"

\* ------------------------------------------------- claims: StatusMonitor
\* C23: a task that finished gave connected = True for the response true,
\* False for the response false, and the absence value for anything else
C23_StatusMapping ==
    \A a \in Accounts :
        spc[a] = "done"
            => /\ info_response[a] = [response |-> [bool |-> TRUE]]
                     => connected[a] = [bool |-> TRUE]
               /\ info_response[a] = [response |-> [bool |-> FALSE]]
                     => connected[a] = [bool |-> FALSE]
               /\ info_response[a] \notin {[response |-> [bool |-> TRUE]],
                                           [response |-> [bool |-> FALSE]]}
                     => connected[a] = Absent

\* one account was answered true, one false and one the number 1
C23_Witness ==
    \E a, b, c \in Accounts :
        /\ spc[a] = "done" /\ spc[b] = "done" /\ spc[c] = "done"
        /\ info_response[a] = [response |-> [bool |-> TRUE]]
        /\ info_response[b] = [response |-> [bool |-> FALSE]]
        /\ info_response[c] = [response |-> [int |-> 1]]
        /\ connected[c] = Absent

\* C24: get_status returns one entry per account of PLAYER_CONFIGS, in the
\* order of that list, entry i with the username, server, enabled flag and
\* visibility of account i, and each account was sent one info request
C24_OneEntryPerAccount ==
    /\ \A a \in Accounts : info_sent[a] <= 1
    /\ gpc = "returned"
          => /\ Len(status_list) = Len(PLAYER_CONFIGS)
             /\ \A i \in DOMAIN PLAYER_CONFIGS :
                   /\ status_list[i][1].username = PLAYER_CONFIGS[i].username
                   /\ status_list[i][1].server = PLAYER_CONFIGS[i].server
                   /\ status_list[i][1].attack_warnings
                         = PLAYER_CONFIGS[i].enabled
                   /\ status_list[i][1].connected = connected[i]
                   /\ status_list[i][2] = PLAYER_CONFIGS[i].visibility
                   /\ info_sent[i] = 1

\* get_status has returned after the last account's task finished first
C24_Witness ==
    /\ gpc = "returned"
    /\ completed = <<3, 2, 1>>
    /\ Len(status_list) = 3


\* ----------------------------------------------- claims: Request and Auth
\* the frame that the built message carries
SentFrame == output.ret.json

\* C25: the digest of a disconnect or reconnect request is the signature
\* under the control key, that of any other command the MAC keyed by the
\* request's own password, and both are taken over the content in the frame
C25_SigningMode ==
    "ret" \in DOMAIN output
        => /\ SentFrame.content = Content(input.req)
           /\ input.req.command \in {"disconnect", "reconnect"}
                 => SentFrame.digest
                       = ControlDigest(Encode(Dumps(SentFrame.content)))
           /\ input.req.command \in {"info", "search", "send", "login"}
                 => SentFrame.digest
                       = ClientDigest(Encode(Dumps(SentFrame.content)),
                                      Encode(input.req.password))

\* a reconnect request of account u2 has been signed with the control key
C25_Witness ==
    /\ "ret" \in DOMAIN output
    /\ input.req.command = "reconnect"
    /\ input.req.username = "u2"
    /\ SentFrame.digest.b16.ed25519.key = B16Decode(CONTROL_PRIVATE_KEY)


\* ------------------------------------------------ claims: Event Decoder
\* a batch has been decoded
Decoded == "message" \in DOMAIN input /\ input.message # Garbage

\* the entry has neither threat indicator
NoThreat(e) == ~e.GS /\ ~e.GA

\* the entry lacks a field that a record needs
Malformed(e) == ~({"MID", "TA"} \subseteq DOMAIN e.M)

\* the positions of the batch whose entry satisfies P
Where(P(_)) == {i \in DOMAIN input.message.M : P(input.message.M[i])}

Broken(e) == ~NoThreat(e) /\ Malformed(e)

C27_ThreatIndicators ==
    Decoded
        => /\ \A i \in DOMAIN input.message.M :
                 LET e == input.message.M[i]
                 IN  /\ NoThreat(e)
                        => output.unpacked[i] = [skip |-> "not_a_threat"]
                     /\ (~NoThreat(e) /\ ~Malformed(e))
                        => /\ "atk_id" \in DOMAIN output.unpacked[i]
                           /\ output.unpacked[i].atk_id = e.M.MID
           /\ Len(output.ret.atks)
                 = Cardinality({i \in DOMAIN input.message.M :
                       ~NoThreat(input.message.M[i])
                       /\ ~Malformed(input.message.M[i])})

\* a field-less entry without indicators was dropped and a complete entry
\* with GA alone gave the one record
C27_Witness ==
    /\ Decoded
    /\ Len(input.message.M) = 2
    /\ NoThreat(input.message.M[1]) /\ Malformed(input.message.M[1])
    /\ output.unpacked[1] = [skip |-> "not_a_threat"]
    /\ input.message.M[2].GA /\ ~input.message.M[2].GS
    /\ Len(output.ret.atks) = 1
    /\ output.ret.atks[1].est_count = -1


\* ---------------------------------------------------------- claims: utils
\* the units of the rendered duration, in order
Units == [i \in DOMAIN output.ret |-> output.ret[i].unit]

\* the number rendered with the unit, 0 when the unit is left out
Rendered(unit) ==
    IF \E i \in DOMAIN output.ret : output.ret[i].unit = unit
    THEN (CHOOSE part \in {output.ret[i] : i \in DOMAIN output.ret} :
             part.unit = unit).n
    ELSE 0

\* C28: a duration of 0 or more seconds is rendered as hours, minutes and
\* seconds in this order, the hours only when not 0, the minutes when the
\* hours or the minutes are not 0, the seconds always, with
\* H*3600 + M*60 + S = seconds, 0 <= M < 60 and 0 <= S < 60
C28_CompoundTime ==
    ("seconds" \in DOMAIN input /\ input.seconds >= 0)
        => /\ Units \in {<<"h", "m", "s">>, <<"m", "s">>, <<"s">>}
           /\ "h" \in {Units[i] : i \in DOMAIN Units} <=> Rendered("h") # 0
           /\ "m" \in {Units[i] : i \in DOMAIN Units}
                 <=> (Rendered("h") # 0 \/ Rendered("m") # 0)
           /\ Rendered("h") * 3600 + Rendered("m") * 60 + Rendered("s")
                 = input.seconds
           /\ Rendered("m") \in 0..59
           /\ Rendered("s") \in 0..59

\* an hour and no minute: "1h 0m 5s"
C28_Witness ==
    /\ "seconds" \in DOMAIN input
    /\ input.seconds = 3605
    /\ output.ret = <<Part(1, "h"), Part(0, "m"), Part(5, "s")>>


\* -------------------------------------------------- claims: ConfigManager
\* the path of the call is "_id" or starts with "$"
Forbidden == input.path = <<"_", "i", "d">> \/ (input.path # <<>> /\ input.path[1] = "$")

\* C29: update and delete return False and write nothing for the path
\* "_id", a path starting with "$" and the empty path, return False when
\* the write raises, and return True otherwise
C29_UpdateDeleteResult ==
    ("op" \in DOMAIN input /\ input.op \in {"update", "delete"})
        => /\ (Forbidden \/ input.path = <<>>)
                 => (output.ret = FALSE /\ output.writes = <<>>)
           /\ (~Forbidden /\ input.path # <<>> /\ input.fails)
                 => (output.ret = FALSE /\ Len(output.writes) = 1)
           /\ (~Forbidden /\ input.path # <<>> /\ ~input.fails)
                 => (output.ret = TRUE /\ Len(output.writes) = 1)

\* an update of the empty path was refused before any write
C29_Witness ==
    /\ "op" \in DOMAIN input
    /\ input.op = "update"
    /\ input.path = <<>>
    /\ ~input.fails
    /\ output = [ret |-> FALSE, writes |-> <<>>]

\* the query of the call gave at least one result
Found == "outputs" \in DOMAIN input.reply /\ input.reply.outputs # <<>>

\* C30: get raises InvalidPathError for the path "_id", for a path starting
\* with "$", for a query without result and for a query that raises;
\* otherwise it returns the output of the first result; the empty path is
\* accepted and queries the root
C30_GetResult ==
    ("op" \in DOMAIN input /\ input.op = "get")
        => /\ (Forbidden \/ ~Found)
                 => ("raised" \in DOMAIN output
                     /\ output.raised = "InvalidPathError")
           /\ (~Forbidden /\ Found)
                 => ("ret" \in DOMAIN output
                     /\ output.ret = input.reply.outputs[1])
           /\ input.path = <<>>
                 => /\ Len(output.queries) = 1
                    /\ output.queries[1][1] = [match |-> [id |-> input.guild_id]]

\* get of the empty path returned the first of two results
C30_Witness ==
    /\ "op" \in DOMAIN input
    /\ input.op = "get"
    /\ input.path = <<>>
    /\ input.reply = [outputs |-> <<2, 1>>]
    /\ "ret" \in DOMAIN output
    /\ output.ret = 2


\* ------------------------------------------------------- claims: PathDict
\* update has been called
Updated == "dict_obj" \in DOMAIN input

\* C31: when update returns False the dictionary is the one of before the
\* call
C31_FailedUpdateKeepsDict ==
    (Updated /\ "ret" \in DOMAIN output /\ output.ret = FALSE)
        => output.dict_obj = input.dict_obj

\* a value that is no dictionary lies on the path from obj, the parent of
\* the last key included
RECURSIVE NonDictOnPath(_, _)
NonDictOnPath(obj, path) ==
    /\ path # <<>>
    /\ \/ ~IsDict(obj)
       \/ /\ Head(path) \in DOMAIN obj.d
          /\ NonDictOnPath(obj.d[Head(path)], Tail(path))

\* C32: update with action "set" does not raise, and returns False when a
\* value that is no dictionary lies on the path and when the path is empty
\* and the value is no dictionary
C32_SetReturnsFalse ==
    (Updated /\ input.action = "set")
        => /\ "ret" \in DOMAIN output
           /\ NonDictOnPath(input.dict_obj, input.path) => output.ret = FALSE
           /\ (input.path = <<>> /\ ~IsDict(input.value)) => output.ret = FALSE


\* ----------------------------------------------- claims: AtkWarningRouter
\* the guilds that the envelope is routed to
RoutedGuilds ==
    {input.routing_info.routes[i] : i \in DOMAIN input.routing_info.routes}

\* guild g is configured to send the envelope to channel c
Configured(g, c) ==
    /\ input.configs[g].enabled = [bool |-> TRUE]
    /\ "entries" \in DOMAIN input.configs[g].routes
    /\ \A rc \in input.configs[g].routes.entries : "channel_ids" \in DOMAIN rc
    /\ \E rc \in input.configs[g].routes.entries :
          /\ rc.username = input.routing_info.username
          /\ rc.server = input.routing_info.server
          /\ c \in rc.channel_ids

\* C33: every channel get_route returns is, for some guild of the
\* envelope's routes, configured by that guild (enabled is True, a route of
\* the envelope's username and server lists it, the configuration is whole)
\* and a channel of that guild
C33_RouteOnlyIfConfigured ==
    "routing_info" \in DOMAIN input
        => \A c \in output.ret :
              \E g \in RoutedGuilds :
                 /\ Configured(g, c)
                 /\ ChannelGuildId(c) = [int |-> g]

\* guild 1 lists three channels, guild 2 is enabled by the number 1, and
\* only guild 1's own channel is returned
C33_Witness ==
    /\ "routing_info" \in DOMAIN input
    /\ input.routing_info.routes = <<1, 2>>
    /\ Configured(1, 21) /\ Configured(1, 99)
    /\ input.configs[2].enabled = [int |-> 1]
    /\ "entries" \in DOMAIN input.configs[2].routes
    /\ output.ret = {11}


\* --------------------------------------------- claims: BotManager, config
\* the parseable messages of the history from the newest one with an empty
\* path on, oldest first
RECURSIVE Effective(_)
Effective(msgs) ==
    IF msgs = <<>> THEN <<>>
    ELSE IF ParseConfigInput(Head(msgs)) = Absent THEN Effective(Tail(msgs))
    ELSE IF ParseConfigInput(Head(msgs)).path = <<>>
         THEN <<ParseConfigInput(Head(msgs))>>
    ELSE Effective(Tail(msgs)) \o <<ParseConfigInput(Head(msgs))>>

\* the messages applied in turn, oldest first, to a dictionary with
\* PathDict.update
RECURSIVE Applied(_, _)
Applied(dict_obj, parsed) ==
    IF parsed = <<>> THEN dict_obj
    ELSE Applied(PathDictUpdate(dict_obj, Head(parsed).path, Head(parsed).action,
                                Head(parsed).value).dict_obj,
                 Tail(parsed))

\* C34: after _load_config returned True the guild's configuration is what
\* applying the effective messages of the channel to an empty configuration
\* gives (a guild without entry has the empty configuration)
C34_LoadedFromLastWhole ==
    ("msgs" \in DOMAIN input /\ "ret" \in DOMAIN output /\ output.ret)
        => (IF output.config = Absent THEN EmptyDict ELSE output.config)
              = Applied(EmptyDict, Effective(input.msgs))


\* ------------------------------------------ claims: ServerComm, continued
\* C35: a request enqueued while no connection was open is still in the
\* outbound queue unless it has been written to a connection
C35_QueuedNotLost ==
    \A i \in DOMAIN calls :
        calls[i].msg_id \in offline
            => \/ \E e \in request_queue : e[1] = calls[i].msg_id
               \/ Writes(calls[i].msg_id) # {}

\* C36: at most one connection is open and at most one connect loop exists,
\* however often start is called; while the loop is connecting or cooling
\* down every connection made before is closed
C36_OneLoopOneConnection ==
    /\ loops <= 1
    /\ loops = (IF starts > 0 THEN 1 ELSE 0)
    /\ Cardinality({n \in Conns : ws[n] = "open"}) <= 1
    /\ \A n \in Conns : ws[n] = "open" => n = nconn /\ connPc = "active"
    /\ connPc \in {"connecting", "cooldown"}
           => \A n \in 1..nconn : ws[n] = "closed"

\* start was called more than once and the loop has made a second connection
C36_Witness ==
    /\ starts > 1
    /\ loops = 1
    /\ nconn = 2
    /\ ws[1] = "closed"
    /\ ws[2] = "open"

\* C37: a frame that is not JSON or lacks content or msg_id is dropped: the
\* registry and the calls stay as they were, and the receive loop that read
\* it is still running on its open connection, where it reads the frames
\* that follow
C37_MalformedDropped ==
    [][\A n \in Conns, frame \in MalformedFrames :
          RecvFrameLogged(n, frame)
              => /\ UNCHANGED <<response_register, calls, request_queue, wire>>
                 /\ recvPc'[n] = "running"
                 /\ ws'[n] = "open"]_vars

\* a malformed frame was read while a call was waiting for its response,
\* and the loop that read it goes on
C37_Witness ==
    /\ fate = "malformed"
    /\ \E i \in DOMAIN calls :
           /\ Pending(i)
           /\ response_register[Key(i)] = <<>>
           /\ Writes(calls[i].msg_id) # {}
    /\ \E n \in Conns : ws[n] = "open" /\ recvPc[n] = "running"

\* C38: however often start is called, every enabled account has exactly
\* one listener task and a disabled account has none; before the first
\* call no account has one
C38_OneTaskPerEnabled ==
    \A a \in Accounts :
        /\ tasks[a] = (IF launches > 0 /\ PLAYER_CONFIGS[a].enabled
                       THEN 1 ELSE 0)
        /\ ~PLAYER_CONFIGS[a].enabled
               => lpc[a] = "none" /\ outstanding[a] = <<>>
        /\ launches > 0 => started

\* start was called again after a listener had got its cursor and polled
C38_Witness ==
    /\ launches > 1
    /\ \E a \in Accounts : PLAYER_CONFIGS[a].enabled /\ tasks[a] = 1
                               /\ lpc[a] = "poll"
    /\ \E a \in Accounts : ~PLAYER_CONFIGS[a].enabled /\ tasks[a] = 0

\* the responses without "error" whose payload is not [list of strings, int]
OddResponses == {[response |-> p] : p \in OddPayloads}

\* C39: a poll cycle that ends with a response whose payload is not a pair
\* of a list of strings and an integer leaves the cursor, the seen set and
\* the output queue as they were, and the listener goes on to the cooldown
\* of its next cycle
C39_OddPayloadSkipped ==
    [][\A a \in Accounts, response \in OddResponses :
          PollDoneLogged(a, response)
              => /\ UNCHANGED <<index, prev_atk_ids, output_queue, emitted>>
                 /\ lpc'[a] = "poll_sleep"
                 /\ outstanding'[a] = <<>>]_vars

\* an account with a cursor above 0, ids seen and an envelope waiting has
\* just been answered with such a payload
C39_Witness ==
    \E a \in Accounts :
        /\ cycle[a] = "odd"
        /\ lpc[a] = "poll_sleep"
        /\ index[a] = 1
        /\ prev_atk_ids # {}
        /\ output_queue # <<>>

\* C40: the cache holds at most CACHE_MAX_LEN entries, the list of keys and
\* the list of items are equally long, item i is the adapter of key i, and
\* no type is twice among the keys
C40_CacheWellFormed ==
    /\ Len(cache_keys) <= CACHE_MAX_LEN
    /\ Len(cache_keys) = Len(cache_items)
    /\ \A i \in DOMAIN cache_keys :
           /\ i \in DOMAIN cache_items
           /\ cache_items[i] = TypeAdapter(cache_keys[i])
    /\ \A i, j \in DOMAIN cache_keys : cache_keys[i] = cache_keys[j] => i = j

\* the cache is full and the type asked about last is found behind its
\* first place, so the call neither inserted nor dropped an entry
C40_Witness ==
    /\ Len(cache_keys) = CACHE_MAX_LEN
    /\ input # NoCall
    /\ "obj_type" \in DOMAIN input
    /\ cache_keys[Len(cache_keys)] = input.obj_type
    /\ output = [ret |-> FALSE]

====
